---- MODULE Spec2Model ----
(***************************************************************************)
(* Sprint velocity and burndown analytics of the plano Flask backend:      *)
(* the sprint and task handlers of api/sprints.py and api/tasks.py and the *)
(* Sprint model of models.py, as a state machine over the sprints and      *)
(* tasks tables.                                                           *)
(*                                                                         *)
(* Conventions                                                             *)
(*  - a nullable column or JSON value is <<>> (None) or <<v>>;             *)
(*  - a datetime is a number of ticks, TicksPerDay ticks to the calendar   *)
(*    day, so timedelta.days is a floored division;                        *)
(*  - a float is an exact rational <<n, d>> in lowest terms (binary        *)
(*    rounding of the floats is not modelled);                             *)
(*  - a JSON request body is a function whose DOMAIN is its set of keys;   *)
(*  - every handler is one atomic action (one request, one transaction),   *)
(*    except complete_sprint in SpecConc, which is split at the point      *)
(*    where two requests can interleave.                                   *)
(***************************************************************************)
EXTENDS Integers, Sequences, FiniteSets, TLC

(***************************************************************************)
(* Bounds of the model.                                                    *)
(***************************************************************************)
MaxSprints == 1
MaxTasks == 1
MaxPoints == 1
MaxHours == 2
MaxTime == 3
TicksPerDay == 2
MaxInflight == 2
NumCalcTasks == 2
NumOrgSprints == 3
MaxDays == 3
MaxSubtasks == 2

SprintIds == 1..MaxSprints
TaskIds == 1..MaxTasks
Times == 0..MaxTime

(***************************************************************************)
(* Nullable values.                                                        *)
(***************************************************************************)
None == <<>>

Some(v) == <<v>>

\* Python's "x or 0" for a nullable integer.
OrZero(x) == IF x = None THEN 0 ELSE x[1]

Nullable(S) == {None} \cup {Some(v) : v \in S}

(***************************************************************************)
(* Enumerations of models.py.                                              *)
(***************************************************************************)
Role == {"OWNER", "MANAGER", "EMPLOYEE"}

Status == {"TODO", "IN_PROGRESS", "DONE", "CANCELLED"}

\* The list [Status.DONE, Status.CANCELLED] used by every completed-work filter.
DoneOrCancelled == {"DONE", "CANCELLED"}

(***************************************************************************)
(* The users table: fixed, since no modelled handler writes it.            *)
(*   1: manager of organization 1     2: employee of organization 1        *)
(*   3: owner of organization 2                                            *)
(***************************************************************************)
UserTable ==
    [u \in 1..3 |->
        IF u = 1 THEN [organization_id |-> Some(1), role |-> "MANAGER"]
        ELSE IF u = 2 THEN [organization_id |-> Some(1), role |-> "EMPLOYEE"]
        ELSE [organization_id |-> Some(2), role |-> "OWNER"]]

UserIds == DOMAIN UserTable

(***************************************************************************)
(* Exact rationals standing for Python floats.                             *)
(***************************************************************************)
Abs(n) == IF n < 0 THEN -n ELSE n

RECURSIVE GCD(_, _)
GCD(a, b) == IF b = 0 THEN a ELSE GCD(b, a % b)

\* The exception a true division by zero raises, carried as a value.
ZeroDivisionError == <<0, 0>>

\* n / d in lowest terms with a positive denominator.
Rat(n, d) ==
    IF d = 0 THEN ZeroDivisionError
    ELSE LET g == GCD(Abs(n), Abs(d))
             sign == IF d < 0 THEN -1 ELSE 1
         IN  <<sign * (n \div g), sign * (d \div g)>>

RatOfInt(n) == <<n, 1>>

RatSub(a, b) ==
    IF a = ZeroDivisionError \/ b = ZeroDivisionError THEN ZeroDivisionError
    ELSE Rat(a[1] * b[2] - b[1] * a[2], a[2] * b[2])

RatMul(a, b) ==
    IF a = ZeroDivisionError \/ b = ZeroDivisionError THEN ZeroDivisionError
    ELSE Rat(a[1] * b[1], a[2] * b[2])

\* float('nan'): a pair no division yields.  Every comparison with it is false.
NaN == <<1, 0>>

\* a < b on floats.
FloatLess(a, b) == a # NaN /\ b # NaN /\ a[1] * b[2] < b[1] * a[2]

(***************************************************************************)
(* JSON values of a request body where their type matters, and float().    *)
(***************************************************************************)
JsonNumber(n) == [json |-> "number", n |-> n]

JsonString(str) == [json |-> "string", str |-> str]

JsonNull == [json |-> "null"]

\* What float() raises instead of returning.
ValueError == "ValueError"

TypeError == "TypeError"

\* float(v): a number converts, a string is parsed ("nan" is a float literal),
\* None raises TypeError.
float(v) ==
    CASE v.json = "number" -> RatOfInt(v.n)
      [] v.json = "string" ->
            CASE v.str = "nan" -> NaN
              [] v.str = "0" -> RatOfInt(0)
              [] v.str = "-1" -> RatOfInt(-1)
              [] OTHER -> ValueError
      [] OTHER -> TypeError

(***************************************************************************)
(* datetime: isoformat, fromisoformat, timedelta.                          *)
(* A formatted datetime is the string of its two-digit day number and its  *)
(* time-of-day digit; strings compare lexicographically, as Python's do.   *)
(***************************************************************************)
\* timedelta.days of a difference of two datetimes (floored).
DeltaDays(delta) == delta \div TicksPerDay

\* timedelta(days=1)
OneDay == TicksPerDay

isoformat(t) ==
    <<(t \div TicksPerDay) \div 10, (t \div TicksPerDay) % 10, t % TicksPerDay>>

\* datetime.fromisoformat raises ValueError on a malformed string.  A string
\* may end in a UTC offset, here a fourth element counting ticks east of UTC
\* (0 for "Z", which the handlers rewrite to "+00:00" before parsing).
IsIsoString(str) ==
    /\ Len(str) \in {3, 4}
    /\ str[1] \in 0..9
    /\ str[2] \in 0..9
    /\ str[3] \in 0..(TicksPerDay - 1)
    /\ Len(str) = 4 => str[4] \in (1 - TicksPerDay)..(TicksPerDay - 1)

\* The wall-clock reading of the parsed datetime.
fromisoformat(str) == (str[1] * 10 + str[2]) * TicksPerDay + str[3]

\* The tzinfo of the parsed datetime: None for a naive one, else its offset.
tzinfo(str) == IF Len(str) = 4 THEN Some(str[4]) ELSE None

\* A datetime object in memory: wall-clock reading and tzinfo.  One loaded
\* from a DateTime column is naive.
Parsed(str) == <<fromisoformat(str), tzinfo(str)>>

Loaded(t) == <<t, None>>

\* Comparing a naive with an aware datetime raises TypeError.
Comparable(a, b) == (a[2] = None) = (b[2] = None)

\* a <= b for two comparable datetimes: aware ones compare as instants.
DateTimeLessEq(a, b) == a[1] - OrZero(a[2]) <= b[1] - OrZero(b[2])

\* The databases the configurations name.
Dialects == {"postgresql", "sqlite"}

\* What a DateTime column (without time zone) keeps of a datetime: PostgreSQL
\* converts an aware one to the session's zone (UTC here), SQLite keeps the
\* wall-clock reading and drops the offset.
StoredDateTime(a, dialect) ==
    IF a[2] # None /\ dialect = "postgresql" THEN a[1] - a[2][1] ELSE a[1]

RECURSIVE StrLess(_, _)
StrLess(a, b) ==
    IF b = <<>> THEN FALSE
    ELSE IF a = <<>> THEN TRUE
    ELSE IF a[1] # b[1] THEN a[1] < b[1]
    ELSE StrLess(Tail(a), Tail(b))

VARIABLES
    sprints,        \* the sprints table: id -> row
    tasks,          \* the tasks table: id -> row
    sprint_seq,     \* last id given out by the sprints primary key sequence
    task_seq,       \* last id given out by the tasks primary key sequence
    resp,           \* the response of the last request served
    inflight,       \* complete_sprint requests past their is_completed check
    completions     \* per sprint id, how many times Sprint.complete() ran

vars == <<sprints, tasks, sprint_seq, task_seq, resp, inflight, completions>>

db == <<sprints, tasks, sprint_seq, task_seq>>


(***************************************************************************)
(* api/sprints.py: calculate_remaining_work.                               *)
(* T is the tasks table the query runs against.                            *)
(***************************************************************************)
\* Task.query.filter_by(sprint_id=sprint_id)
TasksOfSprint(T, sprint_id) ==
    {t \in DOMAIN T : T[t].sprint_id = Some(sprint_id)}

MinOf(S) == CHOOSE x \in S : \A y \in S : x <= y

\* The loop buggy in the way "if task.story_points:" would be: a task with
\* story_points = 0 falls through to its estimated hours.
RECURSIVE RemainingLoopTruthy(_, _, _)
RemainingLoopTruthy(T, ids, remaining_work) ==
    IF ids = {} THEN remaining_work
    ELSE LET t == MinOf(ids)
             task == T[t]
         IN  RemainingLoopTruthy(T, ids \ {t},
                IF task.status \notin DoneOrCancelled
                THEN IF OrZero(task.story_points) # 0
                     THEN remaining_work + task.story_points[1]
                     ELSE IF task.estimated_hours # None
                     THEN remaining_work + task.estimated_hours[1]
                     ELSE remaining_work
                ELSE remaining_work)

\* for task in tasks: ... (lines 16-23)
RECURSIVE RemainingLoop(_, _, _)
RemainingLoop(T, ids, remaining_work) ==
    IF ids = {} THEN remaining_work
    ELSE LET t == MinOf(ids)
             task == T[t]
         IN  RemainingLoop(T, ids \ {t},
                IF task.status \notin DoneOrCancelled
                THEN IF task.story_points # None
                     THEN remaining_work + task.story_points[1]
                     ELSE IF task.estimated_hours # None
                     THEN remaining_work + task.estimated_hours[1]
                     ELSE remaining_work
                ELSE remaining_work)

\* The date argument is accepted and never read.
calculate_remaining_work(T, sprint_id, date) ==
    RemainingLoop(T, TasksOfSprint(T, sprint_id), 0)

(***************************************************************************)
(* api/sprints.py: calculate_ideal_burndown.                               *)
(***************************************************************************)
Point(date, remaining_work, is_ideal) ==
    [date |-> isoformat(date), remaining_work |-> remaining_work,
     is_ideal |-> is_ideal]

\* The loop without "remaining -= daily_reduction".
RECURSIVE IdealLoopFlat(_, _, _, _, _)
IdealLoopFlat(current_date, end_date, remaining, daily_reduction, ideal_points) ==
    IF current_date <= end_date
    THEN IdealLoopFlat(current_date + OneDay, end_date,
                       remaining, daily_reduction,
                       Append(ideal_points, Point(current_date, remaining, TRUE)))
    ELSE ideal_points

\* while current_date <= sprint.end_date: ... (lines 41-48)
RECURSIVE IdealLoop(_, _, _, _, _)
IdealLoop(current_date, end_date, remaining, daily_reduction, ideal_points) ==
    IF current_date <= end_date
    THEN IdealLoop(current_date + OneDay, end_date,
                   RatSub(remaining, daily_reduction), daily_reduction,
                   Append(ideal_points, Point(current_date, remaining, TRUE)))
    ELSE ideal_points

calculate_ideal_burndown(T, sprint_id, sprint) ==
    LET total_work == calculate_remaining_work(T, sprint_id, sprint.start_date)
        days == DeltaDays(sprint.end_date - sprint.start_date) + 1
        daily_reduction == IF days > 0 THEN Rat(total_work, days) ELSE RatOfInt(0)
    IN  IdealLoop(sprint.start_date, sprint.end_date, RatOfInt(total_work),
                  daily_reduction, <<>>)

(***************************************************************************)
(* api/sprints.py: get_sprint_burndown, the computation of its body.       *)
(***************************************************************************)
\* The loop that stops before end_date: "while current_date < sprint.end_date".
RECURSIVE ActualLoopExclusive(_, _, _, _, _)
ActualLoopExclusive(T, sprint_id, current_date, end_date, actual_points) ==
    IF current_date < end_date
    THEN ActualLoopExclusive(T, sprint_id, current_date + OneDay, end_date,
                    Append(actual_points,
                           Point(current_date,
                                 RatOfInt(calculate_remaining_work(T, sprint_id, current_date)),
                                 FALSE)))
    ELSE actual_points

\* while current_date <= sprint.end_date: ... (lines 456-463)
RECURSIVE ActualLoop(_, _, _, _, _)
ActualLoop(T, sprint_id, current_date, end_date, actual_points) ==
    IF current_date <= end_date
    THEN ActualLoop(T, sprint_id, current_date + OneDay, end_date,
                    Append(actual_points,
                           Point(current_date,
                                 RatOfInt(calculate_remaining_work(T, sprint_id, current_date)),
                                 FALSE)))
    ELSE actual_points

\* Python orders False before True.
BoolLess(a, b) == ~a /\ b

\* key=lambda x: (x['date'], not x['is_ideal'])
SortKey(x) == <<x.date, ~x.is_ideal>>

\* Tuple comparison of two sort keys.
KeyLess(k1, k2) ==
    \/ StrLess(k1[1], k2[1])
    \/ k1[1] = k2[1] /\ BoolLess(k1[2], k2[2])

\* list.sort is stable: x goes behind every element whose key is not greater.
RECURSIVE InsertStable(_, _)
InsertStable(sorted, x) ==
    IF sorted = <<>> THEN <<x>>
    ELSE IF KeyLess(SortKey(x), SortKey(Head(sorted)))
    THEN <<x>> \o sorted
    ELSE <<Head(sorted)>> \o InsertStable(Tail(sorted), x)

RECURSIVE SortInto(_, _)
SortInto(list, sorted) ==
    IF list = <<>> THEN sorted
    ELSE SortInto(Tail(list), InsertStable(sorted, Head(list)))

\* all_points.sort(key=...)
ListSort(list) == SortInto(list, <<>>)

\* The points of the response (lines 452-470).
BurndownPoints(T, sprint_id, sprint) ==
    LET actual_points == ActualLoop(T, sprint_id, sprint.start_date, sprint.end_date, <<>>)
        ideal_points == calculate_ideal_burndown(T, sprint_id, sprint)
    IN  ListSort(actual_points \o ideal_points)

\* The statistics without the "if total_work > 0" guard of line 475.
BurndownStatisticsUnguarded(T, sprint_id, sprint, now) ==
    LET total_work == calculate_remaining_work(T, sprint_id, sprint.start_date)
        completed_work ==
            total_work - calculate_remaining_work(T, sprint_id, sprint.end_date)
    IN  [total_work |-> total_work,
         completed_work |-> completed_work,
         completion_percentage |-> RatMul(Rat(completed_work, total_work), RatOfInt(100)),
         days_remaining |-> DeltaDays(sprint.end_date - now)]

\* The statistics of the response (lines 472-484).
BurndownStatistics(T, sprint_id, sprint, now) ==
    LET total_work == calculate_remaining_work(T, sprint_id, sprint.start_date)
        completed_work ==
            total_work - calculate_remaining_work(T, sprint_id, sprint.end_date)
        completion_percentage ==
            IF total_work > 0
            THEN RatMul(Rat(completed_work, total_work), RatOfInt(100))
            ELSE RatOfInt(0)
    IN  [total_work |-> total_work,
         completed_work |-> completed_work,
         completion_percentage |-> completion_percentage,
         days_remaining |-> DeltaDays(sprint.end_date - now)]

(***************************************************************************)
(* models.py: Sprint.calculate_velocity and Sprint.complete.               *)
(***************************************************************************)
\* The query without its status filter.
CompletedTasksOfSprintAnyStatus(T, sprint_id) ==
    TasksOfSprint(T, sprint_id)

\* Task.query.filter(Task.sprint_id == id, Task.status.in_([DONE, CANCELLED]))
CompletedTasksOfSprint(T, sprint_id) ==
    {t \in TasksOfSprint(T, sprint_id) : T[t].status \in DoneOrCancelled}

\* sum(task.<field> or 0 for task in completed_tasks)
RECURSIVE SumOrZero(_, _, _)
SumOrZero(T, ids, field) ==
    IF ids = {} THEN 0
    ELSE LET t == MinOf(ids)
         IN  OrZero(T[t][field]) + SumOrZero(T, ids \ {t}, field)

\* The velocity summed over every task of the sprint, whatever its status.
calculate_velocity_unfiltered(T, sprint_id) ==
    LET completed_tasks == TasksOfSprint(T, sprint_id)
        total_story_points == SumOrZero(T, completed_tasks, "story_points")
        total_hours == SumOrZero(T, completed_tasks, "estimated_hours")
    IN  IF total_story_points > 0 THEN total_story_points
        ELSE IF total_hours > 0 THEN total_hours
        ELSE 0

\* The velocity as the sum of both unit systems, the way get_sprint_velocity
\* reports them side by side.
calculate_velocity_additive(T, sprint_id) ==
    LET completed_tasks == CompletedTasksOfSprint(T, sprint_id)
    IN  SumOrZero(T, completed_tasks, "story_points")
        + SumOrZero(T, completed_tasks, "estimated_hours")

\* The value Sprint.calculate_velocity stores in self.velocity and returns.
calculate_velocity(T, sprint_id) ==
    LET completed_tasks == CompletedTasksOfSprint(T, sprint_id)
        total_story_points == SumOrZero(T, completed_tasks, "story_points")
        total_hours == SumOrZero(T, completed_tasks, "estimated_hours")
    IN  IF total_story_points > 0 THEN total_story_points
        ELSE IF total_hours > 0 THEN total_hours
        ELSE 0

\* Sprint.complete() without its call of calculate_velocity().
complete_without_velocity(T, sprint_id, sprint) ==
    [sprint EXCEPT !.is_completed = TRUE]

\* The sprint row after Sprint.complete(): flag set, velocity recomputed.
complete(T, sprint_id, sprint) ==
    [sprint EXCEPT !.is_completed = TRUE,
                   !.velocity = Some(calculate_velocity(T, sprint_id))]

(***************************************************************************)
(* Requests and responses.                                                 *)
(***************************************************************************)
\* 'key' in data
Has(data, key) == key \in DOMAIN data

\* jsonify({'error': ...}), code
Error(op, id, code) == [op |-> op, id |-> id, code |-> code]

\* current_user = User.query.get(user_id)
CurrentUser(user_id) == UserTable[user_id]

\* current_user.role in [Role.MANAGER, Role.OWNER]
IsManagerOrOwner(user_id) == CurrentUser(user_id).role \in {"MANAGER", "OWNER"}

\* current_user.organization_id == row.organization_id
SameOrganization(user_id, row) ==
    CurrentUser(user_id).organization_id = Some(row.organization_id)

\* The prologue without the role check.
SprintWriteGateAnyRole(user_id, id) ==
    IF id \notin DOMAIN sprints THEN 404
    ELSE IF ~SameOrganization(user_id, sprints[id]) THEN 403
    ELSE 200

\* The status code of the lookup and permission prologue shared by the
\* sprint-mutating handlers; 200 when the request may proceed.
SprintWriteGate(user_id, id) ==
    IF id \notin DOMAIN sprints THEN 404
    ELSE IF ~SameOrganization(user_id, sprints[id]) THEN 403
    ELSE IF ~IsManagerOrOwner(user_id) THEN 403
    ELSE 200

\* The prologue of the sprint queries: lookup and organization check only.
SprintReadGate(user_id, id) ==
    IF id \notin DOMAIN sprints THEN 404
    ELSE IF ~SameOrganization(user_id, sprints[id]) THEN 403
    ELSE 200

\* Removal of one row from a table.
Without(table, id) == [i \in DOMAIN table \ {id} |-> table[i]]

\* db.session.add(row) under primary key id.
With(table, id, row) ==
    [i \in DOMAIN table \cup {id} |-> IF i = id THEN row ELSE table[i]]

(***************************************************************************)
(* api/sprints.py: the query handlers.                                     *)
(***************************************************************************)
\* An uncaught exception in the computation: Flask answers 500.
BurndownRaised(points, statistics) ==
    \/ statistics.completion_percentage = ZeroDivisionError
    \/ \E i \in 1..Len(points) : points[i].remaining_work = ZeroDivisionError

get_sprint_burndown(user_id, sprint_id, now) ==
    /\ resp' =
         IF SprintReadGate(user_id, sprint_id) # 200
         THEN Error("get_sprint_burndown", sprint_id, SprintReadGate(user_id, sprint_id))
         ELSE LET points == BurndownPoints(tasks, sprint_id, sprints[sprint_id])
                  statistics == BurndownStatistics(tasks, sprint_id, sprints[sprint_id], now)
              IN  IF BurndownRaised(points, statistics)
                  THEN Error("get_sprint_burndown", sprint_id, 500)
                  ELSE [op |-> "get_sprint_burndown", id |-> sprint_id, code |-> 200,
                        points |-> points, statistics |-> statistics]
    /\ UNCHANGED <<db, inflight, completions>>

\* The query as it would be if it saved the completed story points as the
\* sprint's velocity.
get_sprint_velocity_storing(user_id, sprint_id, now) ==
    /\ IF SprintReadGate(user_id, sprint_id) # 200
       THEN /\ resp' = Error("get_sprint_velocity", sprint_id,
                             SprintReadGate(user_id, sprint_id))
            /\ UNCHANGED sprints
       ELSE LET completed_tasks == CompletedTasksOfSprint(tasks, sprint_id)
                completed_story_points == SumOrZero(tasks, completed_tasks, "story_points")
            IN  /\ resp' = [op |-> "get_sprint_velocity", id |-> sprint_id, code |-> 200,
                            completed_work |-> [story_points |-> completed_story_points]]
                /\ sprints' = [sprints EXCEPT
                                  ![sprint_id].velocity = Some(completed_story_points)]
    /\ UNCHANGED <<tasks, sprint_seq, task_seq, inflight, completions>>

get_sprint_velocity(user_id, sprint_id, now) ==
    /\ resp' =
         IF SprintReadGate(user_id, sprint_id) # 200
         THEN Error("get_sprint_velocity", sprint_id, SprintReadGate(user_id, sprint_id))
         ELSE LET completed_tasks == CompletedTasksOfSprint(tasks, sprint_id)
                  completed_story_points == SumOrZero(tasks, completed_tasks, "story_points")
                  completed_hours == SumOrZero(tasks, completed_tasks, "estimated_hours")
                  days_elapsed == DeltaDays(now - sprints[sprint_id].start_date) + 1
              IN  [op |-> "get_sprint_velocity", id |-> sprint_id, code |-> 200,
                   completed_work |-> [story_points |-> completed_story_points,
                                       hours |-> completed_hours],
                   daily_velocity |->
                       [story_points |-> IF days_elapsed > 0
                                         THEN Rat(completed_story_points, days_elapsed)
                                         ELSE RatOfInt(0),
                        hours |-> IF days_elapsed > 0
                                  THEN Rat(completed_hours, days_elapsed)
                                  ELSE RatOfInt(0)],
                   days_elapsed |-> days_elapsed]
    /\ UNCHANGED <<db, inflight, completions>>

(***************************************************************************)
(* api/sprints.py: get_current_sprint.  now is datetime.utcnow().          *)
(***************************************************************************)
\* Sprint.query.filter(organization_id == ..., start_date <= now, end_date >= now)
CurrentSprintsOf(S, organization_id, now) ==
    {id \in DOMAIN S :
        /\ S[id].organization_id = organization_id
        /\ S[id].start_date <= now
        /\ S[id].end_date >= now}

\* .first() of a query without ORDER BY: any of the matching rows.
get_current_sprint(user_id, now) ==
    /\ IF CurrentUser(user_id).organization_id = None
       THEN resp' = Error("get_current_sprint", 0, 400)
       ELSE LET matching == CurrentSprintsOf(sprints, CurrentUser(user_id).organization_id[1], now)
            IN  IF matching = {}
                THEN resp' = Error("get_current_sprint", 0, 404)
                ELSE \E current_sprint \in matching :
                        resp' = [op |-> "get_current_sprint", id |-> current_sprint,
                                 code |-> 200, sprint |-> sprints[current_sprint]]
    /\ UNCHANGED <<db, inflight, completions>>

(***************************************************************************)
(* api/sprints.py: get_organization_velocity.                              *)
(***************************************************************************)
\* The completed sprints of every organization: the query without its
\* organization filter.
CompletedSprintsOfAnyOrganization(S, organization_id) ==
    {id \in DOMAIN S : S[id].is_completed}

\* Sprint.query.filter(Sprint.organization_id == ..., Sprint.is_completed == True)
CompletedSprintsOf(S, organization_id) ==
    {id \in DOMAIN S : S[id].organization_id = organization_id /\ S[id].is_completed}

\* The rows in ascending order of end_date: ".order_by(Sprint.end_date)".
OrderedByEndDateAsc(S, ids) ==
    {order \in [1..Cardinality(ids) -> ids] :
        /\ \A i, j \in DOMAIN order : i # j => order[i] # order[j]
        /\ \A i, j \in DOMAIN order :
              i < j => S[order[i]].end_date <= S[order[j]].end_date}

\* .order_by(Sprint.end_date.desc()).all(): the orders the database may return
\* the rows in; rows with equal end_date come in any order.
OrderedByEndDateDesc(S, ids) ==
    {order \in [1..Cardinality(ids) -> ids] :
        /\ \A i, j \in DOMAIN order : i # j => order[i] # order[j]
        /\ \A i, j \in DOMAIN order :
              i < j => S[order[i]].end_date >= S[order[j]].end_date}

\* [sprint.velocity for sprint in completed_sprints if sprint.velocity is not None]
RECURSIVE Velocities(_, _)
Velocities(S, completed_sprints) ==
    IF completed_sprints = <<>> THEN <<>>
    ELSE IF S[Head(completed_sprints)].velocity # None
    THEN <<S[Head(completed_sprints)].velocity[1]>> \o Velocities(S, Tail(completed_sprints))
    ELSE Velocities(S, Tail(completed_sprints))

\* sum(velocities)
RECURSIVE sum(_)
sum(list) == IF list = <<>> THEN 0 ELSE Head(list) + sum(Tail(list))

\* The velocity_trend list (lines 584-593).
RECURSIVE VelocityTrend(_, _)
VelocityTrend(S, completed_sprints) ==
    IF completed_sprints = <<>> THEN <<>>
    ELSE LET id == Head(completed_sprints)
             sprint == S[id]
         IN  IF sprint.velocity # None
             THEN <<[sprint_id |-> id,
                     sprint_name |-> sprint.name,
                     end_date |-> isoformat(sprint.end_date),
                     velocity |-> sprint.velocity[1],
                     planned_velocity |-> sprint.planned_velocity]>>
                  \o VelocityTrend(S, Tail(completed_sprints))
             ELSE VelocityTrend(S, Tail(completed_sprints))

get_organization_velocity(user_id) ==
    /\ IF CurrentUser(user_id).organization_id = None
       THEN resp' = Error("get_organization_velocity", 0, 400)
       ELSE \E completed_sprints \in
                  OrderedByEndDateDesc(sprints,
                      CompletedSprintsOf(sprints, CurrentUser(user_id).organization_id[1])) :
              LET velocities == Velocities(sprints, completed_sprints)
                  avg_velocity == IF Len(velocities) > 0
                                  THEN Rat(sum(velocities), Len(velocities))
                                  ELSE RatOfInt(0)
              IN  resp' = [op |-> "get_organization_velocity", id |-> 0, code |-> 200,
                           average_velocity |-> avg_velocity,
                           completed_sprints |-> Len(completed_sprints),
                           velocity_trend |-> VelocityTrend(sprints, completed_sprints)]
    /\ UNCHANGED <<db, inflight, completions>>

(***************************************************************************)
(* api/sprints.py: complete_sprint, served as one transaction.             *)
(***************************************************************************)
\* The gate without the is_completed check of lines 551-552.
CompleteSprintGateUnchecked(user_id, id) ==
    SprintWriteGate(user_id, id)

\* The status code decided by lines 537-552.
CompleteSprintGate(user_id, id) ==
    IF SprintWriteGate(user_id, id) # 200 THEN SprintWriteGate(user_id, id)
    ELSE IF sprints[id].is_completed THEN 400
    ELSE 200

complete_sprint(user_id, id) ==
    /\ IF CompleteSprintGate(user_id, id) = 200
       THEN /\ sprints' = [sprints EXCEPT ![id] = complete(tasks, id, sprints[id])]
            /\ completions' = [completions EXCEPT ![id] = @ + 1]
            /\ resp' = [op |-> "complete_sprint", id |-> id, code |-> 200,
                        velocity |-> sprints'[id].velocity]
       ELSE /\ resp' = Error("complete_sprint", id, CompleteSprintGate(user_id, id))
            /\ UNCHANGED <<sprints, completions>>
    /\ UNCHANGED <<tasks, sprint_seq, task_seq, inflight>>

(***************************************************************************)
(* api/sprints.py: complete_sprint as two requests can interleave it: the  *)
(* request reads the sprint and checks is_completed (lines 537-552), other *)
(* requests run, then sprint.complete() writes and commits (line 555).     *)
(***************************************************************************)
complete_sprint_check(worker, user_id, id) ==
    /\ \A request \in inflight : request.worker # worker
    /\ IF CompleteSprintGate(user_id, id) = 200
       THEN /\ inflight' = inflight \cup
                    {[worker |-> worker, user_id |-> user_id, id |-> id]}
            /\ UNCHANGED resp
       ELSE /\ resp' = Error("complete_sprint", id, CompleteSprintGate(user_id, id))
            /\ UNCHANGED inflight
    /\ UNCHANGED <<db, completions>>

complete_sprint_write(request) ==
    /\ request \in inflight
    /\ request.id \in DOMAIN sprints
    /\ inflight' = inflight \ {request}
    /\ sprints' = [sprints EXCEPT ![request.id] = complete(tasks, request.id, sprints[request.id])]
    /\ completions' = [completions EXCEPT ![request.id] = @ + 1]
    /\ resp' = [op |-> "complete_sprint", id |-> request.id, code |-> 200,
                velocity |-> sprints'[request.id].velocity]
    /\ UNCHANGED <<tasks, sprint_seq, task_seq>>

(***************************************************************************)
(* api/sprints.py: the handlers that write the sprints table.              *)
(***************************************************************************)
\* The status code create_sprint answers with (lines 121-150); 201 = created,
\* 500 = the TypeError of comparing a naive with an aware datetime.
CreateSprintCode(user_id, data) ==
    IF CurrentUser(user_id).organization_id = None THEN 400
    ELSE IF ~IsManagerOrOwner(user_id) THEN 403
    ELSE IF ~({"name", "start_date", "end_date"} \subseteq DOMAIN data) THEN 400
    ELSE IF ~IsIsoString(data.start_date) THEN 400
    ELSE IF ~IsIsoString(data.end_date) THEN 400
    ELSE IF ~Comparable(Parsed(data.end_date), Parsed(data.start_date)) THEN 500
    ELSE IF DateTimeLessEq(Parsed(data.end_date), Parsed(data.start_date)) THEN 400
    ELSE 201

\* The new sprint with a velocity column that defaults to 0 instead of NULL.
NewSprintZeroVelocity(user_id, data, dialect) ==
    [name |-> data.name,
     goal |-> IF Has(data, "goal") THEN Some(data.goal) ELSE None,
     start_date |-> StoredDateTime(Parsed(data.start_date), dialect),
     end_date |-> StoredDateTime(Parsed(data.end_date), dialect),
     organization_id |-> CurrentUser(user_id).organization_id[1],
     velocity |-> Some(0),
     planned_velocity |-> None,
     is_completed |-> FALSE]

\* Sprint(name=..., goal=data.get('goal'), ...) with the column defaults.
NewSprint(user_id, data, dialect) ==
    [name |-> data.name,
     goal |-> IF Has(data, "goal") THEN Some(data.goal) ELSE None,
     start_date |-> StoredDateTime(Parsed(data.start_date), dialect),
     end_date |-> StoredDateTime(Parsed(data.end_date), dialect),
     organization_id |-> CurrentUser(user_id).organization_id[1],
     velocity |-> None,
     planned_velocity |-> None,
     is_completed |-> FALSE]

create_sprint(user_id, data, dialect) ==
    /\ IF CreateSprintCode(user_id, data) = 201
       THEN /\ sprint_seq < MaxSprints
            /\ sprint_seq' = sprint_seq + 1
            /\ sprints' = With(sprints, sprint_seq', NewSprint(user_id, data, dialect))
            /\ resp' = [op |-> "create_sprint", id |-> sprint_seq', code |-> 201]
       ELSE /\ resp' = Error("create_sprint", 0, CreateSprintCode(user_id, data))
            /\ UNCHANGED <<sprints, sprint_seq>>
    /\ UNCHANGED <<tasks, task_seq, inflight, completions>>

\* sprint.start_date and sprint.end_date as the object holds them when line
\* 220 compares them: the parsed value if the body named one, else the column's.
StartInMemory(sprint, data) ==
    IF Has(data, "start_date") /\ IsIsoString(data.start_date)
    THEN Parsed(data.start_date) ELSE Loaded(sprint.start_date)

EndInMemory(sprint, data) ==
    IF Has(data, "end_date") /\ IsIsoString(data.end_date)
    THEN Parsed(data.end_date) ELSE Loaded(sprint.end_date)

\* The update that also resets the stored velocity, as an edit of a sprint
\* that reopened its accounting would.
UpdatedSprintResettingVelocity(sprint, data, dialect) ==
    LET named == IF Has(data, "name") THEN [sprint EXCEPT !.name = data.name] ELSE sprint
        goaled == IF Has(data, "goal") THEN [named EXCEPT !.goal = Some(data.goal)] ELSE named
    IN  [goaled EXCEPT
            !.start_date = StoredDateTime(StartInMemory(sprint, data), dialect),
            !.end_date = StoredDateTime(EndInMemory(sprint, data), dialect),
            !.velocity = None]

\* The sprint row after the assignments of lines 201-217 and the commit.
UpdatedSprint(sprint, data, dialect) ==
    LET named == IF Has(data, "name") THEN [sprint EXCEPT !.name = data.name] ELSE sprint
        goaled == IF Has(data, "goal") THEN [named EXCEPT !.goal = Some(data.goal)] ELSE named
    IN  [goaled EXCEPT
            !.start_date = StoredDateTime(StartInMemory(sprint, data), dialect),
            !.end_date = StoredDateTime(EndInMemory(sprint, data), dialect)]

\* The status code update_sprint answers with (lines 185-223); 500 = the
\* TypeError of comparing a naive with an aware datetime.
UpdateSprintCode(user_id, id, data) ==
    IF SprintWriteGate(user_id, id) # 200 THEN SprintWriteGate(user_id, id)
    ELSE IF Has(data, "start_date") /\ ~IsIsoString(data.start_date) THEN 400
    ELSE IF Has(data, "end_date") /\ ~IsIsoString(data.end_date) THEN 400
    ELSE IF ~Comparable(EndInMemory(sprints[id], data), StartInMemory(sprints[id], data))
         THEN 500
    ELSE IF DateTimeLessEq(EndInMemory(sprints[id], data), StartInMemory(sprints[id], data))
         THEN 400
    ELSE 200

\* The handler on a session that writes each assignment through at once: a
\* request rejected at its dates has stored its name and goal by then.
update_sprint_writing_through(user_id, id, data, dialect) ==
    /\ IF UpdateSprintCode(user_id, id, data) = 200
       THEN /\ sprints' = [sprints EXCEPT ![id] = UpdatedSprint(sprints[id], data, dialect)]
            /\ resp' = [op |-> "update_sprint", id |-> id, code |-> 200]
       ELSE /\ resp' = Error("update_sprint", id, UpdateSprintCode(user_id, id, data))
            /\ IF SprintWriteGate(user_id, id) = 200
               THEN sprints' = [sprints EXCEPT ![id] =
                        [sprints[id] EXCEPT
                            !.name = IF Has(data, "name") THEN data.name ELSE @,
                            !.goal = IF Has(data, "goal") THEN Some(data.goal) ELSE @]]
               ELSE UNCHANGED sprints
    /\ UNCHANGED <<tasks, sprint_seq, task_seq, inflight, completions>>

\* Only the path that reaches db.session.commit() persists the object; every
\* early return leaves the session to be rolled back when the request ends.
update_sprint(user_id, id, data, dialect) ==
    /\ IF UpdateSprintCode(user_id, id, data) = 200
       THEN /\ sprints' = [sprints EXCEPT ![id] = UpdatedSprint(sprints[id], data, dialect)]
            /\ resp' = [op |-> "update_sprint", id |-> id, code |-> 200]
       ELSE /\ resp' = Error("update_sprint", id, UpdateSprintCode(user_id, id, data))
            /\ UNCHANGED sprints
    /\ UNCHANGED <<tasks, sprint_seq, task_seq, inflight, completions>>

\* The status code delete_sprint answers with (lines 236-252).
DeleteSprintCode(user_id, id) ==
    IF SprintWriteGate(user_id, id) # 200 THEN SprintWriteGate(user_id, id)
    ELSE IF Cardinality(TasksOfSprint(tasks, id)) > 0 THEN 400
    ELSE 200

delete_sprint(user_id, id) ==
    /\ IF DeleteSprintCode(user_id, id) = 200
       THEN /\ sprints' = Without(sprints, id)
            /\ resp' = [op |-> "delete_sprint", id |-> id, code |-> 200]
       ELSE /\ resp' = Error("delete_sprint", id, DeleteSprintCode(user_id, id))
            /\ UNCHANGED sprints
    /\ UNCHANGED <<tasks, sprint_seq, task_seq, inflight, completions>>

\* The status code without the is_completed check of lines 622-624.
UpdatePlannedVelocityCodeUnchecked(user_id, id, data) ==
    IF SprintWriteGate(user_id, id) # 200 THEN SprintWriteGate(user_id, id)
    ELSE IF ~Has(data, "planned_velocity") THEN 400
    ELSE IF float(data.planned_velocity) = TypeError THEN 500
    ELSE IF float(data.planned_velocity) = ValueError THEN 400
    ELSE IF FloatLess(float(data.planned_velocity), RatOfInt(0)) THEN 400
    ELSE 200

\* The status code update_planned_velocity answers with (lines 609-637); the
\* TypeError of float(None) is not caught and ends in a 500.
UpdatePlannedVelocityCode(user_id, id, data) ==
    IF SprintWriteGate(user_id, id) # 200 THEN SprintWriteGate(user_id, id)
    ELSE IF sprints[id].is_completed THEN 400
    ELSE IF ~Has(data, "planned_velocity") THEN 400
    ELSE IF float(data.planned_velocity) = TypeError THEN 500
    ELSE IF float(data.planned_velocity) = ValueError THEN 400
    ELSE IF FloatLess(float(data.planned_velocity), RatOfInt(0)) THEN 400
    ELSE 200

\* The value the planned_velocity column holds after the commit: PostgreSQL
\* stores a NaN in a double precision column, SQLite stores NULL for it.
StoredFloat(x, dialect) == IF x = NaN /\ dialect = "sqlite" THEN None ELSE Some(x)

update_planned_velocity(user_id, id, data, dialect) ==
    /\ IF UpdatePlannedVelocityCode(user_id, id, data) = 200
       THEN /\ sprints' = [sprints EXCEPT ![id].planned_velocity =
                                StoredFloat(float(data.planned_velocity), dialect)]
            /\ resp' = [op |-> "update_planned_velocity", id |-> id, code |-> 200,
                        planned_velocity |-> sprints'[id].planned_velocity]
       ELSE /\ resp' = Error("update_planned_velocity", id,
                             UpdatePlannedVelocityCode(user_id, id, data))
            /\ UNCHANGED sprints
    /\ UNCHANGED <<tasks, sprint_seq, task_seq, inflight, completions>>

(***************************************************************************)
(* api/sprints.py: moving tasks into and out of a sprint.                  *)
(***************************************************************************)
\* for task_id in data['task_ids']: ... (lines 389-393)
RECURSIVE AddTasksLoop(_, _, _, _)
AddTasksLoop(T, user_id, id, task_ids) ==
    IF task_ids = <<>> THEN T
    ELSE LET task_id == Head(task_ids)
         IN  AddTasksLoop(
                IF task_id \in DOMAIN T /\ SameOrganization(user_id, T[task_id])
                THEN [T EXCEPT ![task_id].sprint_id = Some(id)]
                ELSE T,
                user_id, id, Tail(task_ids))

AddTasksCode(user_id, id, data) ==
    IF SprintWriteGate(user_id, id) # 200 THEN SprintWriteGate(user_id, id)
    ELSE IF ~Has(data, "task_ids") THEN 400
    ELSE 200

add_tasks_to_sprint(user_id, id, data) ==
    /\ IF AddTasksCode(user_id, id, data) = 200
       THEN /\ tasks' = AddTasksLoop(tasks, user_id, id, data.task_ids)
            /\ resp' = [op |-> "add_tasks_to_sprint", id |-> id, code |-> 200]
       ELSE /\ resp' = Error("add_tasks_to_sprint", id, AddTasksCode(user_id, id, data))
            /\ UNCHANGED tasks
    /\ UNCHANGED <<sprints, sprint_seq, task_seq, inflight, completions>>

RemoveTaskCode(user_id, id, task_id) ==
    IF SprintWriteGate(user_id, id) # 200 THEN SprintWriteGate(user_id, id)
    ELSE IF task_id \notin DOMAIN tasks THEN 404
    ELSE IF tasks[task_id].sprint_id # Some(id) THEN 400
    ELSE 200

remove_task_from_sprint(user_id, id, task_id) ==
    /\ IF RemoveTaskCode(user_id, id, task_id) = 200
       THEN /\ tasks' = [tasks EXCEPT ![task_id].sprint_id = None]
            /\ resp' = [op |-> "remove_task_from_sprint", id |-> id, code |-> 200]
       ELSE /\ resp' = Error("remove_task_from_sprint", id, RemoveTaskCode(user_id, id, task_id))
            /\ UNCHANGED tasks
    /\ UNCHANGED <<sprints, sprint_seq, task_seq, inflight, completions>>

(***************************************************************************)
(* api/tasks.py: create_task, update_task, delete_task.                    *)
(* Of the task columns, those read by the sprint analytics and by the      *)
(* handlers' own checks are kept: organization_id, created_by_id, status,  *)
(* story_points, estimated_hours, sprint_id, parent_task_id.  No modelled  *)
(* request names an assignee, so assignee_user_id stays NULL; the title is *)
(* required of a create request and read by nothing afterwards.            *)
(***************************************************************************)
\* str.upper() on the status strings requests carry.
upper(str) ==
    CASE str \in {"todo", "Todo", "TODO"} -> "TODO"
      [] str \in {"in_progress", "IN_PROGRESS"} -> "IN_PROGRESS"
      [] str \in {"done", "Done", "DONE"} -> "DONE"
      [] str \in {"cancelled", "CANCELLED"} -> "CANCELLED"
      [] str \in {"finished", "FINISHED"} -> "FINISHED"
      [] OTHER -> str

\* Status[name] raises KeyError unless name is a member name of the enum.
IsStatusName(name) == name \in Status

\* Python truthiness of a nullable integer JSON value.
Truthy(x) == x # None /\ x[1] # 0

\* db.session.commit() fails on a sprint_id that names no sprint row when the
\* database enforces the tasks.sprint_id foreign key (PostgreSQL does, SQLite
\* without the foreign_keys pragma does not).
ForeignKeyViolation(task, fk_enforced) ==
    /\ fk_enforced
    /\ task.sprint_id # None
    /\ task.sprint_id[1] \notin DOMAIN sprints

\* The task object after the assignments of create_task (lines 133-192).
NewTask(user_id, data) ==
    [organization_id |-> CurrentUser(user_id).organization_id[1],
     created_by_id |-> user_id,
     status |-> IF Has(data, "status") /\ IsStatusName(upper(data.status))
                THEN upper(data.status) ELSE "TODO",
     story_points |-> IF Has(data, "story_points") /\ data.story_points # None
                      THEN data.story_points ELSE None,
     estimated_hours |-> IF Has(data, "estimated_hours") /\ data.estimated_hours # None
                         THEN data.estimated_hours ELSE None,
     parent_task_id |-> IF Has(data, "parent_task_id") /\ Truthy(data.parent_task_id)
                        THEN data.parent_task_id ELSE None,
     sprint_id |-> IF Has(data, "sprint_id") /\ Truthy(data.sprint_id)
                   THEN data.sprint_id ELSE None]

\* The status code create_task answers with; 201 = created.
CreateTaskCode(user_id, data, fk_enforced) ==
    IF CurrentUser(user_id).organization_id = None THEN 400
    ELSE IF ~Has(data, "title") THEN 400
    ELSE IF Has(data, "status") /\ ~IsStatusName(upper(data.status)) THEN 400
    ELSE IF /\ Has(data, "parent_task_id") /\ Truthy(data.parent_task_id)
            /\ \/ data.parent_task_id[1] \notin DOMAIN tasks
               \/ ~SameOrganization(user_id, tasks[data.parent_task_id[1]])
         THEN 400
    ELSE IF ForeignKeyViolation(NewTask(user_id, data), fk_enforced) THEN 500
    ELSE 201

create_task(user_id, data, fk_enforced) ==
    /\ IF CreateTaskCode(user_id, data, fk_enforced) = 201
       THEN /\ task_seq < MaxTasks
            /\ task_seq' = task_seq + 1
            /\ tasks' = With(tasks, task_seq', NewTask(user_id, data))
            /\ resp' = [op |-> "create_task", id |-> task_seq', code |-> 201]
       ELSE /\ resp' = Error("create_task", 0, CreateTaskCode(user_id, data, fk_enforced))
            /\ UNCHANGED <<tasks, task_seq>>
    /\ UNCHANGED <<sprints, sprint_seq, inflight, completions>>

\* The task object after the assignments of update_task (lines 253-319).
UpdatedTask(task, data) ==
    LET a == IF Has(data, "status") /\ IsStatusName(upper(data.status))
             THEN [task EXCEPT !.status = upper(data.status)] ELSE task
        b == IF Has(data, "story_points")
             THEN [a EXCEPT !.story_points = data.story_points] ELSE a
        c == IF Has(data, "estimated_hours")
             THEN [b EXCEPT !.estimated_hours = data.estimated_hours] ELSE b
        d == IF Has(data, "parent_task_id")
             THEN [c EXCEPT !.parent_task_id = data.parent_task_id] ELSE c
    IN  IF Has(data, "sprint_id")
        THEN [d EXCEPT !.sprint_id = data.sprint_id] ELSE d

\* The status code update_task answers with.
UpdateTaskCode(user_id, id, data, fk_enforced) ==
    IF id \notin DOMAIN tasks THEN 404
    ELSE IF ~SameOrganization(user_id, tasks[id]) THEN 403
    ELSE IF Has(data, "status") /\ ~IsStatusName(upper(data.status)) THEN 400
    ELSE IF /\ Has(data, "parent_task_id") /\ data.parent_task_id # None
            /\ \/ data.parent_task_id[1] \notin DOMAIN tasks
               \/ ~SameOrganization(user_id, tasks[data.parent_task_id[1]])
         THEN 400
    ELSE IF /\ Has(data, "parent_task_id") /\ data.parent_task_id # None
            /\ \/ data.parent_task_id[1] = id
               \/ tasks[data.parent_task_id[1]].parent_task_id = Some(id)
         THEN 400
    ELSE IF ForeignKeyViolation(UpdatedTask(tasks[id], data), fk_enforced) THEN 500
    ELSE 200

update_task(user_id, id, data, fk_enforced) ==
    /\ IF UpdateTaskCode(user_id, id, data, fk_enforced) = 200
       THEN /\ tasks' = [tasks EXCEPT ![id] = UpdatedTask(tasks[id], data)]
            /\ resp' = [op |-> "update_task", id |-> id, code |-> 200]
       ELSE /\ resp' = Error("update_task", id, UpdateTaskCode(user_id, id, data, fk_enforced))
            /\ UNCHANGED tasks
    /\ UNCHANGED <<sprints, sprint_seq, task_seq, inflight, completions>>

\* The status code delete_task answers with.
DeleteTaskCode(user_id, id) ==
    IF id \notin DOMAIN tasks THEN 404
    ELSE IF ~SameOrganization(user_id, tasks[id]) THEN 403
    ELSE IF ~(tasks[id].created_by_id = user_id \/ IsManagerOrOwner(user_id)) THEN 403
    ELSE IF \E t \in DOMAIN tasks : tasks[t].parent_task_id = Some(id) THEN 400
    ELSE 200

delete_task(user_id, id) ==
    /\ IF DeleteTaskCode(user_id, id) = 200
       THEN /\ tasks' = Without(tasks, id)
            /\ resp' = [op |-> "delete_task", id |-> id, code |-> 200]
       ELSE /\ resp' = Error("delete_task", id, DeleteTaskCode(user_id, id))
            /\ UNCHANGED tasks
    /\ UNCHANGED <<sprints, sprint_seq, task_seq, inflight, completions>>

\* int(n * 0.5), the default ratio of create_subtask: Python's int()
\* truncates toward zero.
HalfOf(n) == IF n >= 0 THEN n \div 2 ELSE -((-n) \div 2)

\* The task create_subtask builds from its parent (scrum.py lines 501-528),
\* for a subtask body that carries no ratios.
create_subtask(parent_task_id, parent_task, user_id) ==
    [organization_id |-> parent_task.organization_id,
     created_by_id |-> user_id,
     status |-> "TODO",
     story_points |-> Some(HalfOf(OrZero(parent_task.story_points))),
     estimated_hours |-> Some(HalfOf(OrZero(parent_task.estimated_hours))),
     parent_task_id |-> Some(parent_task_id),
     sprint_id |-> parent_task.sprint_id]

\* The status code split_task answers with; 201 = split.
SplitTaskCode(user_id, task_id, data) ==
    IF task_id \notin DOMAIN tasks THEN 404
    ELSE IF ~SameOrganization(user_id, tasks[task_id]) THEN 403
    ELSE IF ~IsManagerOrOwner(user_id) THEN 403
    ELSE IF ~Has(data, "subtasks") THEN 400
    ELSE IF Len(data.subtasks) = 0 THEN 400
    ELSE IF \E i \in 1..Len(data.subtasks) : ~Has(data.subtasks[i], "title") THEN 400
    ELSE 201

\* POST /tasks/<task_id>/split: one new task per subtask body, each a child
\* of the task that is split; the table holds at most MaxTasks + MaxSubtasks
\* rows.
split_task(user_id, task_id, data) ==
    /\ IF SplitTaskCode(user_id, task_id, data) = 201
       THEN /\ task_seq + Len(data.subtasks) <= MaxTasks + MaxSubtasks
            /\ task_seq' = task_seq + Len(data.subtasks)
            /\ tasks' = [t \in DOMAIN tasks \cup ((task_seq + 1)..task_seq') |->
                            IF t \in DOMAIN tasks THEN tasks[t]
                            ELSE create_subtask(task_id, tasks[task_id], user_id)]
            /\ resp' = [op |-> "split_task", id |-> task_id, code |-> 201]
       ELSE /\ resp' = Error("split_task", task_id, SplitTaskCode(user_id, task_id, data))
            /\ UNCHANGED <<tasks, task_seq>>
    /\ UNCHANGED <<sprints, sprint_seq, inflight, completions>>

(***************************************************************************)
(* Spec: the life of one sprint after its creation.  Sprint 1 of           *)
(* organization 1 exists and is open, the tasks table is empty; requests   *)
(* arrive one at a time, from any of the three users, and name any sprint  *)
(* or task id of the range, existing or not.                               *)
(***************************************************************************)
EmptyTable == <<>>

NoResponse == [op |-> "none", id |-> 0, code |-> 0]

\* A sprint as create_sprint leaves it.
SprintRow(start_date, end_date) ==
    [name |-> "sprint", goal |-> None,
     start_date |-> start_date, end_date |-> end_date,
     organization_id |-> 1,
     velocity |-> None, planned_velocity |-> None, is_completed |-> FALSE]

Init ==
    /\ sprints = (1 :> SprintRow(0, MaxTime))
    /\ tasks = EmptyTable
    /\ sprint_seq = 1
    /\ task_seq = 0
    /\ resp = NoResponse
    /\ inflight = {}
    /\ completions = [id \in SprintIds |-> 0]

UpdateSprintBodies ==
    {[end_date |-> isoformat(0)], [name |-> "sprint"]}

PlannedVelocityBodies ==
    {[planned_velocity |-> JsonNumber(v)] : v \in {-1, 0}}

CreateTaskBodies ==
    {[status |-> "todo"], [title |-> "task"],
     [title |-> "task", status |-> "finished"],
     [title |-> "task", story_points |-> Some(MaxPoints), status |-> "done"]}

UpdateTaskBodies ==
    {[status |-> st] : st \in {"todo", "done", "finished"}}
    \cup {[story_points |-> p] : p \in Nullable({MaxPoints})}
    \cup {[sprint_id |-> None]}

\* Bodies that name a sprint, which may exist or not.
TaskSprintBodies ==
    {[sprint_id |-> Some(s)] : s \in SprintIds}

\* The bodies of Spec carry naive dates and plain numbers, which both
\* databases store alike.
UpdateSprint == \E user_id \in UserIds, id \in SprintIds, data \in UpdateSprintBodies :
    update_sprint(user_id, id, data, "postgresql")

DeleteSprint == \E user_id \in UserIds, id \in SprintIds :
    delete_sprint(user_id, id)

UpdatePlannedVelocity ==
    \E user_id \in UserIds, id \in SprintIds, data \in PlannedVelocityBodies :
        update_planned_velocity(user_id, id, data, "postgresql")

AddTasksToSprint ==
    \E user_id \in UserIds, id \in SprintIds, t \in TaskIds :
        add_tasks_to_sprint(user_id, id, [task_ids |-> <<t>>])

RemoveTaskFromSprint ==
    \E user_id \in UserIds, id \in SprintIds, t \in TaskIds :
        remove_task_from_sprint(user_id, id, t)

CompleteSprint == \E user_id \in UserIds, id \in SprintIds :
    complete_sprint(user_id, id)

GetSprintBurndown == \E user_id \in UserIds, id \in SprintIds :
    get_sprint_burndown(user_id, id, MaxTime)

GetSprintVelocity == \E user_id \in UserIds, id \in SprintIds :
    get_sprint_velocity(user_id, id, MaxTime)

\* The tasks of Spec are created by the manager of organization 1.
CreateTask == \E user_id \in {1} :
    \/ \E data \in CreateTaskBodies : create_task(user_id, data, TRUE)
    \/ \E data \in TaskSprintBodies, fk \in BOOLEAN :
          create_task(user_id, [title |-> "task", sprint_id |-> data.sprint_id], fk)

UpdateTask == \E user_id \in UserIds, id \in TaskIds :
    \/ \E data \in UpdateTaskBodies : update_task(user_id, id, data, TRUE)
    \/ \E data \in TaskSprintBodies, fk \in BOOLEAN : update_task(user_id, id, data, fk)

DeleteTask == \E user_id \in UserIds, id \in TaskIds :
    delete_task(user_id, id)

Next ==
    \/ UpdateSprint
    \/ DeleteSprint
    \/ UpdatePlannedVelocity
    \/ AddTasksToSprint
    \/ RemoveTaskFromSprint
    \/ CompleteSprint
    \/ GetSprintBurndown
    \/ GetSprintVelocity
    \/ CreateTask
    \/ UpdateTask
    \/ DeleteTask

Spec == Init /\ [][Next]_vars

(***************************************************************************)
(* SpecCalc: the analytics as functions of the tables.  One open sprint of *)
(* organization 1 and NumCalcTasks tasks, those of the sprint in every     *)
(* combination of status, story points and estimated hours; the requests   *)
(* are the burndown and velocity queries and the completion of the sprint. *)
(***************************************************************************)
\* The tasks of the sprint, and tasks outside it that carry work in both units.
CalcTaskRows ==
    [organization_id : {1},
     created_by_id : {1},
     status : Status,
     story_points : Nullable(0..MaxPoints),
     estimated_hours : Nullable({MaxHours}),
     parent_task_id : {None},
     sprint_id : {Some(1)}]
    \cup
    [organization_id : {1},
     created_by_id : {1},
     status : {"TODO", "DONE"},
     story_points : {Some(MaxPoints)},
     estimated_hours : {Some(MaxHours)},
     parent_task_id : {None},
     sprint_id : {None}]

InitCalc ==
    /\ sprints = (1 :> SprintRow(0, MaxTime))
    /\ tasks \in [1..NumCalcTasks -> CalcTaskRows]
    /\ sprint_seq = 1
    /\ task_seq = NumCalcTasks
    /\ resp = NoResponse
    /\ inflight = {}
    /\ completions = [id \in SprintIds |-> 0]

CalcBurndown == \E user_id \in {1, 3} :
    get_sprint_burndown(user_id, 1, MaxTime + TicksPerDay)

CalcVelocity == \E user_id \in {2, 3} :
    get_sprint_velocity(user_id, 1, MaxTime)

CalcComplete == \E user_id \in {1, 2} :
    complete_sprint(user_id, 1)

NextCalc ==
    \/ CalcBurndown
    \/ CalcVelocity
    \/ CalcComplete

SpecCalc == InitCalc /\ [][NextCalc]_vars

(***************************************************************************)
(* SpecConc: complete_sprint requests served by MaxInflight workers at     *)
(* once, with task updates between a request's check and its write.        *)
(***************************************************************************)
ConcTaskRows ==
    [organization_id : {1},
     created_by_id : {1},
     status : {"TODO", "DONE"},
     story_points : Nullable({MaxPoints}),
     estimated_hours : {None},
     parent_task_id : {None},
     sprint_id : {Some(1)}]

InitConc ==
    /\ sprints = (1 :> SprintRow(0, MaxTime))
    /\ tasks \in [TaskIds -> ConcTaskRows]
    /\ sprint_seq = 1
    /\ task_seq = MaxTasks
    /\ resp = NoResponse
    /\ inflight = {}
    /\ completions = [id \in SprintIds |-> 0]

ConcCheck == \E worker \in 1..MaxInflight, user_id \in UserIds :
    complete_sprint_check(worker, user_id, 1)

ConcWrite == \E request \in inflight :
    complete_sprint_write(request)

ConcUpdateTask == \E id \in TaskIds, st \in {"todo", "done"} :
    update_task(1, id, [status |-> st], TRUE)

NextConc ==
    \/ ConcCheck
    \/ ConcWrite
    \/ ConcUpdateTask

SpecConc == InitConc /\ [][NextConc]_vars

(***************************************************************************)
(* SpecSprints: the sprints table from empty.  The manager and the         *)
(* employee of organization 1 create, update, plan and complete sprints,   *)
(* with dates that are naive, aware or malformed and planned velocities    *)
(* that are numbers, strings or null, on either database.  No task exists. *)
(***************************************************************************)
InitSprints ==
    /\ sprints = EmptyTable
    /\ tasks = EmptyTable
    /\ sprint_seq = 0
    /\ task_seq = 0
    /\ resp = NoResponse
    /\ inflight = {}
    /\ completions = [id \in SprintIds |-> 0]

\* A date string no parser accepts.
Malformed == <<>>

\* The string of wall-clock time t with the UTC offset of offset ticks.
AwareString(t, offset) == isoformat(t) \o <<offset>>

NaiveCreateBodies ==
    {[name |-> "sprint", start_date |-> a, end_date |-> b] :
        a \in {isoformat(1), Malformed}, b \in {isoformat(1), isoformat(MaxTime)}}
    \cup {[name |-> "sprint", start_date |-> isoformat(1)]}

AwareCreateBodies ==
    {[name |-> "sprint", start_date |-> AwareString(1, 1), end_date |-> b] :
        b \in {isoformat(MaxTime), AwareString(1, 0)}}

NaiveUpdateBodies ==
    {[name |-> "sprint"], [start_date |-> isoformat(0)], [end_date |-> isoformat(1)],
     [start_date |-> Malformed], [end_date |-> AwareString(1, 0)]}

AwareUpdateBodies ==
    {[start_date |-> AwareString(1, 1), end_date |-> AwareString(MaxTime, 0)]}

NumberBodies ==
    {[planned_velocity |-> v] :
        v \in {JsonNumber(-1), JsonNumber(0), JsonString("abc"), JsonNull}}
    \cup {[name |-> "sprint"]}

NaNBodies == {[planned_velocity |-> JsonString("nan")]}

SprintsCreate == \E user_id \in {1, 2} :
    \/ \E data \in NaiveCreateBodies : create_sprint(user_id, data, "postgresql")
    \/ \E data \in AwareCreateBodies, dialect \in Dialects :
          create_sprint(user_id, data, dialect)

SprintsUpdate == \E user_id \in {1, 2}, id \in SprintIds :
    \/ \E data \in NaiveUpdateBodies : update_sprint(user_id, id, data, "postgresql")
    \/ \E data \in AwareUpdateBodies, dialect \in Dialects :
          update_sprint(user_id, id, data, dialect)

SprintsPlannedVelocity == \E user_id \in {1, 2}, id \in SprintIds :
    \/ \E data \in NumberBodies : update_planned_velocity(user_id, id, data, "postgresql")
    \/ \E data \in NaNBodies, dialect \in Dialects :
          update_planned_velocity(user_id, id, data, dialect)

SprintsComplete == \E user_id \in {1, 2}, id \in SprintIds :
    complete_sprint(user_id, id)

NextSprints ==
    \/ SprintsCreate
    \/ SprintsUpdate
    \/ SprintsPlannedVelocity
    \/ SprintsComplete

SpecSprints == InitSprints /\ [][NextSprints]_vars

(***************************************************************************)
(* SpecOrg: the organization velocity as a function of the sprints table.  *)
(* NumOrgSprints sprints of organizations 1 and 2, open or completed with  *)
(* a velocity up to MaxPoints; the odd sprints end at MaxTime - 1, the     *)
(* even ones at MaxTime.  Any user asks for the velocity of their          *)
(* organization.  The tasks that earned the velocities have been deleted   *)
(* since.                                                                  *)
(***************************************************************************)
OrgSprintRows ==
    {[SprintRow(0, end_date) EXCEPT !.organization_id = organization_id] :
        end_date \in {MaxTime - 1, MaxTime}, organization_id \in {1, 2}}
    \cup
    {[SprintRow(0, end_date) EXCEPT !.organization_id = organization_id,
                                    !.is_completed = TRUE,
                                    !.velocity = Some(velocity)] :
        end_date \in {MaxTime - 1, MaxTime}, organization_id \in {1, 2},
        velocity \in 0..MaxPoints}

InitOrg ==
    /\ sprints \in {table \in [1..NumOrgSprints -> OrgSprintRows] :
                      \A id \in DOMAIN table : table[id].end_date = MaxTime - (id % 2)}
    /\ tasks = EmptyTable
    /\ sprint_seq = NumOrgSprints
    /\ task_seq = 0
    /\ resp = NoResponse
    /\ inflight = {}
    /\ completions = [id \in 1..NumOrgSprints |-> 0]

OrgVelocity == \E user_id \in UserIds :
    get_organization_velocity(user_id)

NextOrg ==
    \/ OrgVelocity

SpecOrg == InitOrg /\ [][NextOrg]_vars

(***************************************************************************)
(* SpecTenant: the requests that write tasks.sprint_id, from the users of  *)
(* both organizations.  Sprint 1 belongs to organization 1; the database   *)
(* enforces the foreign key tasks.sprint_id -> sprints.id.                 *)
(***************************************************************************)
TenantCreateBodies ==
    {[title |-> "task"], [title |-> "task", status |-> "done"]}
    \cup {[title |-> "task", sprint_id |-> data.sprint_id] : data \in TaskSprintBodies}

TenantUpdateBodies ==
    {[status |-> "done"], [story_points |-> Some(MaxPoints)], [sprint_id |-> None]}
    \cup TaskSprintBodies

TenantCreateTask == \E user_id \in UserIds, data \in TenantCreateBodies :
    create_task(user_id, data, TRUE)

TenantUpdateTask == \E user_id \in UserIds, id \in TaskIds, data \in TenantUpdateBodies :
    update_task(user_id, id, data, TRUE)

NextTenant ==
    \/ TenantCreateTask
    \/ TenantUpdateTask
    \/ AddTasksToSprint
    \/ DeleteTask

SpecTenant == Init /\ [][NextTenant]_vars

(***************************************************************************)
(* SpecAuth: the seven sprint-mutating requests from every user: the       *)
(* manager and the employee of organization 1 and the owner of             *)
(* organization 2.  The tasks exist, in no sprint: the odd ones belong to  *)
(* organization 1, the even ones to organization 2.  The sprints are made  *)
(* by the requests themselves, all in organization 1: the owner of         *)
(* organization 2 asks for changes of sprints but creates none.            *)
(***************************************************************************)
AuthTaskRow(id) ==
    [organization_id |-> IF id % 2 = 1 THEN 1 ELSE 2,
     created_by_id |-> IF id % 2 = 1 THEN 1 ELSE 3,
     status |-> "DONE",
     story_points |-> Some(MaxPoints),
     estimated_hours |-> None,
     parent_task_id |-> None,
     sprint_id |-> None]

InitAuth ==
    /\ sprints = EmptyTable
    /\ tasks = [id \in TaskIds |-> AuthTaskRow(id)]
    /\ sprint_seq = 0
    /\ task_seq = MaxTasks
    /\ resp = NoResponse
    /\ inflight = {}
    /\ completions = [id \in SprintIds |-> 0]

AuthCreateBodies ==
    {[name |-> "sprint", start_date |-> isoformat(0), end_date |-> isoformat(MaxTime)]}

AuthUpdateBodies == {[goal |-> "goal"]}

AuthPlannedVelocityBodies == {[planned_velocity |-> JsonNumber(MaxPoints)]}

AuthCreate == \E user_id \in {1, 2}, data \in AuthCreateBodies :
    create_sprint(user_id, data, "postgresql")

AuthUpdate == \E user_id \in UserIds, id \in SprintIds, data \in AuthUpdateBodies :
    update_sprint(user_id, id, data, "postgresql")

AuthPlannedVelocity ==
    \E user_id \in UserIds, id \in SprintIds, data \in AuthPlannedVelocityBodies :
        update_planned_velocity(user_id, id, data, "postgresql")

NextAuth ==
    \/ AuthCreate
    \/ AuthUpdate
    \/ DeleteSprint
    \/ AddTasksToSprint
    \/ RemoveTaskFromSprint
    \/ CompleteSprint
    \/ AuthPlannedVelocity

SpecAuth == InitAuth /\ [][NextAuth]_vars

(***************************************************************************)
(* SpecIdeal: the burndown of sprints of one to MaxDays days.  Sprint 1    *)
(* starts at time 0 and ends within the first day or at the start of a     *)
(* later one; its NumCalcTasks tasks are open or done and carry story      *)
(* points, which create_task and update_task store as sent: negative, zero *)
(* or positive.  The requests are the burndown query and status changes.   *)
(***************************************************************************)
IdealEndDates == {1} \cup {d * TicksPerDay : d \in 1..(MaxDays - 1)}

IdealTaskRows ==
    [organization_id : {1},
     created_by_id : {1},
     status : {"TODO", "DONE"},
     story_points : {Some(-1), Some(0), Some(MaxPoints)},
     estimated_hours : {None},
     parent_task_id : {None},
     sprint_id : {Some(1)}]

InitIdeal ==
    /\ \E end_date \in IdealEndDates : sprints = (1 :> SprintRow(0, end_date))
    /\ tasks \in [1..NumCalcTasks -> IdealTaskRows]
    /\ sprint_seq = 1
    /\ task_seq = NumCalcTasks
    /\ resp = NoResponse
    /\ inflight = {}
    /\ completions = [id \in SprintIds |-> 0]

IdealBurndown == \E user_id \in {1, 2} :
    get_sprint_burndown(user_id, 1, MaxTime)

IdealUpdateTask == \E id \in 1..NumCalcTasks, st \in {"todo", "done"} :
    update_task(1, id, [status |-> st], TRUE)

NextIdeal ==
    \/ IdealBurndown
    \/ IdealUpdateTask

SpecIdeal == InitIdeal /\ [][NextIdeal]_vars

(***************************************************************************)
(* SpecQueries: the four queries between changes.  Sprint 1 of             *)
(* organization 1 is open and holds NumCalcTasks tasks; the requests are   *)
(* the queries, from users of both organizations, the two changes that     *)
(* move their answers, a task's status and the sprint's completion, and    *)
(* the manager's changes of the sprint's goal and planned velocity.        *)
(***************************************************************************)
QueryTaskRows ==
    [organization_id : {1},
     created_by_id : {1},
     status : {"TODO", "DONE"},
     story_points : {Some(MaxPoints)},
     estimated_hours : {None},
     parent_task_id : {None},
     sprint_id : {Some(1)}]

InitQueries ==
    /\ sprints = (1 :> SprintRow(0, MaxTime))
    /\ tasks \in [1..NumCalcTasks -> QueryTaskRows]
    /\ sprint_seq = 1
    /\ task_seq = NumCalcTasks
    /\ resp = NoResponse
    /\ inflight = {}
    /\ completions = [id \in SprintIds |-> 0]

\* datetime.utcnow() at the time of the request.
QueryNows == {0, MaxTime + 1}

QueryBurndown == \E user_id \in {1, 3}, now \in QueryNows :
    get_sprint_burndown(user_id, 1, now)

QueryVelocity == \E user_id \in {1, 3}, now \in QueryNows :
    get_sprint_velocity(user_id, 1, now)

QueryOrganizationVelocity == \E user_id \in {1, 3} :
    get_organization_velocity(user_id)

QueryCurrentSprint == \E user_id \in {1, 3}, now \in QueryNows :
    get_current_sprint(user_id, now)

QueryUpdateTask == \E id \in 1..NumCalcTasks, st \in {"todo", "done"} :
    update_task(1, id, [status |-> st], TRUE)

QueryComplete ==
    complete_sprint(1, 1)

QueryUpdateSprint == \E data \in AuthUpdateBodies :
    update_sprint(1, 1, data, "postgresql")

QueryPlannedVelocity == \E data \in AuthPlannedVelocityBodies :
    update_planned_velocity(1, 1, data, "postgresql")

NextQueries ==
    \/ QueryBurndown
    \/ QueryVelocity
    \/ QueryOrganizationVelocity
    \/ QueryCurrentSprint
    \/ QueryUpdateTask
    \/ QueryComplete
    \/ QueryUpdateSprint
    \/ QueryPlannedVelocity

SpecQueries == InitQueries /\ [][NextQueries]_vars

(***************************************************************************)
(* SpecCurrent: the current-sprint lookup as a function of the sprints     *)
(* table and the clock.  NumOrgSprints open sprints of organizations 1 and *)
(* 2 cover the first or the second part of the time line, which ends a day *)
(* after the last sprint; any user asks at any time.                       *)
(***************************************************************************)
CurrentSprintRows ==
    {[SprintRow(range[1], range[2]) EXCEPT !.organization_id = organization_id] :
        range \in {<<0, 1>>, <<1, MaxTime>>}, organization_id \in {1, 2}}

InitCurrent ==
    /\ sprints \in [1..NumOrgSprints -> CurrentSprintRows]
    /\ tasks = EmptyTable
    /\ sprint_seq = NumOrgSprints
    /\ task_seq = 0
    /\ resp = NoResponse
    /\ inflight = {}
    /\ completions = [id \in 1..NumOrgSprints |-> 0]

\* datetime.utcnow() at the time of the request.
CurrentNows == 0..(MaxTime + TicksPerDay)

CurrentSprint == \E user_id \in UserIds, now \in CurrentNows :
    get_current_sprint(user_id, now)

NextCurrent ==
    \/ CurrentSprint

SpecCurrent == InitCurrent /\ [][NextCurrent]_vars

(***************************************************************************)
(* SpecVelocity: the velocity query asked before, at and after the start   *)
(* of a sprint, up to its second day.  Sprint 1 starts one day after time  *)
(* 0; its NumCalcTasks tasks have any status and carry story points,       *)
(* hours, both or neither.                                                 *)
(***************************************************************************)
VelocityTaskRows ==
    [organization_id : {1},
     created_by_id : {1},
     status : {"TODO", "DONE", "CANCELLED"},
     story_points : Nullable({MaxPoints}),
     estimated_hours : Nullable({MaxHours}),
     parent_task_id : {None},
     sprint_id : {Some(1)}]

InitVelocity ==
    /\ sprints = (1 :> SprintRow(TicksPerDay, MaxDays * TicksPerDay))
    /\ tasks \in [1..NumCalcTasks -> VelocityTaskRows]
    /\ sprint_seq = 1
    /\ task_seq = NumCalcTasks
    /\ resp = NoResponse
    /\ inflight = {}
    /\ completions = [id \in SprintIds |-> 0]

\* datetime.utcnow() at the time of the request.
VelocityNows == 0..(2 * TicksPerDay)

VelocityQuery == \E user_id \in {1, 3}, now \in VelocityNows :
    get_sprint_velocity(user_id, 1, now)

VelocityUpdateTask == \E id \in 1..NumCalcTasks, st \in {"todo", "done"} :
    update_task(1, id, [status |-> st], TRUE)

NextVelocity ==
    \/ VelocityQuery
    \/ VelocityUpdateTask

SpecVelocity == InitVelocity /\ [][NextVelocity]_vars

(***************************************************************************)
(* SpecSeries: the burndown of sprints that start at midnight or later in  *)
(* the day and end at any later time of the first MaxDays days, as         *)
(* create_sprint accepts them.  The NumCalcTasks tasks of the sprint are   *)
(* open or done; the requests are the burndown query and status changes.   *)
(***************************************************************************)
SeriesRanges ==
    {range \in {0, 1} \X (1..((MaxDays - 1) * TicksPerDay)) : range[1] < range[2]}

SeriesTaskRows ==
    [organization_id : {1},
     created_by_id : {1},
     status : {"TODO", "DONE"},
     story_points : {Some(0), Some(MaxPoints)},
     estimated_hours : {None},
     parent_task_id : {None},
     sprint_id : {Some(1)}]

InitSeries ==
    /\ \E range \in SeriesRanges : sprints = (1 :> SprintRow(range[1], range[2]))
    /\ tasks \in [1..NumCalcTasks -> SeriesTaskRows]
    /\ sprint_seq = 1
    /\ task_seq = NumCalcTasks
    /\ resp = NoResponse
    /\ inflight = {}
    /\ completions = [id \in SprintIds |-> 0]

SeriesBurndown == \E user_id \in {1, 2} :
    get_sprint_burndown(user_id, 1, MaxTime)

SeriesUpdateTask == \E id \in 1..NumCalcTasks, st \in {"todo", "done"} :
    update_task(1, id, [status |-> st], TRUE)

NextSeries ==
    \/ SeriesBurndown
    \/ SeriesUpdateTask

SpecSeries == InitSeries /\ [][NextSeries]_vars

(***************************************************************************)
(* SpecParents: the requests that write tasks.parent_task_id.  The tasks   *)
(* table starts empty; create_task adds tasks until MaxTasks exist,        *)
(* split_task adds children after that, and update_task moves any task     *)
(* under any other.                                                        *)
(***************************************************************************)
ParentIds == 1..(MaxTasks + MaxSubtasks)

ParentCreateBodies ==
    {[title |-> "task"]}
    \cup {[title |-> "task", parent_task_id |-> Some(p)] : p \in ParentIds}

ParentUpdateBodies ==
    {[parent_task_id |-> p] : p \in Nullable(ParentIds)}

SplitBodies ==
    {[title |-> "task"],
     [subtasks |-> <<>>],
     [subtasks |-> <<[description |-> "part"]>>],
     [subtasks |-> <<[title |-> "part"]>>],
     [subtasks |-> <<[title |-> "part"], [title |-> "part"]>>]}

ParentCreateTask == \E data \in ParentCreateBodies :
    create_task(1, data, TRUE)

ParentUpdateTask == \E id \in ParentIds, data \in ParentUpdateBodies :
    update_task(1, id, data, TRUE)

SplitTask == \E user_id \in {1, 2}, task_id \in ParentIds, data \in SplitBodies :
    split_task(user_id, task_id, data)

NextParents ==
    \/ ParentCreateTask
    \/ ParentUpdateTask
    \/ SplitTask

SpecParents == Init /\ [][NextParents]_vars

(***************************************************************************)
(* SpecReject: update_sprint requests that carry several fields at once,   *)
(* with dates that parse or not and ranges that are valid or not, on one   *)
(* sprint of organization 1 that starts on tick 1 and ends on MaxTime,     *)
(* before and after its completion.                                        *)
(***************************************************************************)
InitReject ==
    /\ sprints = (1 :> SprintRow(1, MaxTime))
    /\ tasks = EmptyTable
    /\ sprint_seq = 1
    /\ task_seq = 0
    /\ resp = NoResponse
    /\ inflight = {}
    /\ completions = [id \in SprintIds |-> 0]

RejectDates == {isoformat(t) : t \in Times} \cup {Malformed}

RejectBodies ==
    {[name |-> "renamed"], [goal |-> "goal"]}
    \cup {[name |-> n, goal |-> "goal", start_date |-> a] :
             n \in {"sprint", "renamed"}, a \in RejectDates}
    \cup {[name |-> n, goal |-> "goal", start_date |-> a, end_date |-> b] :
             n \in {"sprint", "renamed"}, a \in RejectDates, b \in RejectDates}

RejectUpdateSprint == \E user_id \in {1, 2}, data \in RejectBodies :
    update_sprint(user_id, 1, data, "postgresql")

RejectPlannedVelocity == \E data \in AuthPlannedVelocityBodies :
    update_planned_velocity(1, 1, data, "postgresql")

RejectComplete == complete_sprint(1, 1)

NextReject ==
    \/ RejectUpdateSprint
    \/ RejectPlannedVelocity
    \/ RejectComplete

SpecReject == InitReject /\ [][NextReject]_vars

(***************************************************************************)
(* SpecMerged: the burndown of one sprint of organization 1 whose dates    *)
(* are rewritten by update_sprint, with naive strings and with strings     *)
(* that carry a UTC offset east or west of Greenwich, on either database.  *)
(* The sprint has NumCalcTasks tasks of MaxPoints story points, which are  *)
(* closed and reopened.                                                    *)
(***************************************************************************)
MergedTaskRow ==
    [organization_id |-> 1, created_by_id |-> 1, status |-> "TODO",
     story_points |-> Some(MaxPoints), estimated_hours |-> None,
     parent_task_id |-> None, sprint_id |-> Some(1)]

InitMerged ==
    /\ sprints = (1 :> SprintRow(0, MaxTime))
    /\ tasks = [id \in 1..NumCalcTasks |-> MergedTaskRow]
    /\ sprint_seq = 1
    /\ task_seq = NumCalcTasks
    /\ resp = NoResponse
    /\ inflight = {}
    /\ completions = [id \in SprintIds |-> 0]

\* Wall-clock readings from the second day on, so that the conversion to UTC
\* stays on or after day 0.
MergedTimes == TicksPerDay..(TicksPerDay + MaxTime)

MergedOffsets == {1 - TicksPerDay, 0, TicksPerDay - 1}

MergedNaiveBodies ==
    {[start_date |-> isoformat(a), end_date |-> isoformat(b)] :
        a \in MergedTimes, b \in MergedTimes}

MergedAwareBodies ==
    {[start_date |-> AwareString(a, c), end_date |-> AwareString(b, d)] :
        a \in MergedTimes, b \in MergedTimes, c \in MergedOffsets, d \in MergedOffsets}

MergedUpdateSprint ==
    \/ \E data \in MergedNaiveBodies : update_sprint(1, 1, data, "postgresql")
    \/ \E data \in MergedAwareBodies, dialect \in Dialects :
          update_sprint(1, 1, data, dialect)

MergedBurndown == \E user_id \in {1, 2} :
    get_sprint_burndown(user_id, 1, MaxTime)

MergedUpdateTask == \E id \in 1..NumCalcTasks, st \in {"todo", "done"} :
    update_task(1, id, [status |-> st], TRUE)

NextMerged ==
    \/ MergedUpdateSprint
    \/ MergedBurndown
    \/ MergedUpdateTask

SpecMerged == InitMerged /\ [][NextMerged]_vars

(***************************************************************************)
(* Vocabulary of the properties: sums stated by counting, independently of *)
(* the loops of the handlers.                                              *)
(***************************************************************************)
\* The sum of W(t) over t in S, for weights that are natural numbers.
Total(S, W(_)) == Cardinality(UNION {{<<t, k>> : k \in 1..W(t)} : t \in S})

\* Work-unit value of a task: story points if set, else estimated hours, else 0.
WorkUnitValue(t) ==
    IF tasks[t].story_points # None THEN tasks[t].story_points[1]
    ELSE IF tasks[t].estimated_hours # None THEN tasks[t].estimated_hours[1]
    ELSE 0

StoryPointsOf(t) == IF tasks[t].story_points = None THEN 0 ELSE tasks[t].story_points[1]

HoursOf(t) == IF tasks[t].estimated_hours = None THEN 0 ELSE tasks[t].estimated_hours[1]

InSprint(id) == {t \in DOMAIN tasks : tasks[t].sprint_id = Some(id)}

ClosedIn(id) == {t \in InSprint(id) : tasks[t].status = "DONE" \/ tasks[t].status = "CANCELLED"}

OpenIn(id) == InSprint(id) \ ClosedIn(id)

BurndownAnswered == resp.op = "get_sprint_burndown" /\ resp.code = 200

CompletionAnswered == resp.op = "complete_sprint" /\ resp.code = 200

(***************************************************************************)
(* C1.  In the merged series of a burndown response, whenever an actual    *)
(* point and an ideal point carry the same date, the actual point comes    *)
(* first.                                                                  *)
(***************************************************************************)
C1_ActualBeforeIdeal ==
    BurndownAnswered =>
        \A i, j \in 1..Len(resp.points) :
            ( /\ resp.points[i].date = resp.points[j].date
              /\ ~resp.points[i].is_ideal
              /\ resp.points[j].is_ideal ) => i < j

(***************************************************************************)
(* C2.  Completion is one-way: a complete_sprint request on a sprint that  *)
(* is already completed is refused (with 400 when the requester passes the *)
(* permission checks) and leaves the sprint row, its velocity included, as *)
(* the first completion wrote it.                                          *)
(***************************************************************************)
C2_CompleteIsOneWay ==
    [][\A user_id \in UserIds, id \in SprintIds :
        ( /\ id \in DOMAIN sprints
          /\ sprints[id].is_completed
          /\ complete_sprint(user_id, id) )
        => /\ resp'.code # 200
           /\ SprintWriteGate(user_id, id) = 200 => resp'.code = 400
           /\ sprints'[id] = sprints[id]]_vars

\* A second completion was refused although the tasks have changed since the
\* first one: recomputing would give another velocity than the stored one.
C2_Witness ==
    /\ resp.op = "complete_sprint"
    /\ resp.code = 400
    /\ resp.id \in DOMAIN sprints
    /\ sprints[resp.id].is_completed
    /\ sprints[resp.id].velocity # Some(calculate_velocity(tasks, resp.id))

(***************************************************************************)
(* C3.  Once a sprint is completed, no request changes its velocity or     *)
(* clears its is_completed flag for as long as the sprint row exists.      *)
(***************************************************************************)
C3_VelocityFrozen ==
    [][\A id \in DOMAIN sprints :
        (sprints[id].is_completed /\ id \in DOMAIN sprints')
        => /\ sprints'[id].velocity = sprints[id].velocity
           /\ sprints'[id].is_completed]_vars

\* A task update was accepted after the completion and the stored velocity no
\* longer equals what the tasks now add up to.
C3_Witness ==
    /\ resp.op = "update_task"
    /\ resp.code = 200
    /\ \E id \in DOMAIN sprints :
          /\ sprints[id].is_completed
          /\ sprints[id].velocity = Some(MaxPoints)
          /\ calculate_velocity(tasks, id) = 0

(***************************************************************************)
(* C4.  Sprint.complete() runs at most once per sprint, so at most one     *)
(* complete_sprint request per sprint reports success, also when requests  *)
(* overlap.                                                                *)
(***************************************************************************)
C4_AtMostOneCompletion ==
    \A id \in SprintIds : completions[id] <= 1

(***************************************************************************)
(* C5.  calculate_velocity does not depend on the tasks that are TODO or   *)
(* IN_PROGRESS: giving such a task other story points, other estimated     *)
(* hours, or moving it into or out of the sprint leaves the result as it   *)
(* is.                                                                     *)
(***************************************************************************)
C5_OnlyClosedTasksCount ==
    \A id \in DOMAIN sprints :
        LET velocity == calculate_velocity(tasks, id)
        IN  \A t \in DOMAIN tasks :
                tasks[t].status \in {"TODO", "IN_PROGRESS"} =>
                    \A p \in Nullable(0..MaxPoints), h \in Nullable({MaxHours}),
                       s \in {None, Some(id)} :
                        calculate_velocity(
                            [tasks EXCEPT ![t] = [@ EXCEPT !.story_points = p,
                                                           !.estimated_hours = h,
                                                           !.sprint_id = s]],
                            id)
                        = velocity

\* A sprint was completed with velocity MaxPoints earned by a closed task while
\* an open task of the same sprint carries story points of its own.
C5_Witness ==
    /\ CompletionAnswered
    /\ resp.velocity = Some(MaxPoints)
    /\ \E t \in OpenIn(resp.id) : tasks[t].story_points = Some(MaxPoints)

(***************************************************************************)
(* C6.  calculate_velocity is the story-point total of the sprint's DONE   *)
(* and CANCELLED tasks when that total is positive, else their total of    *)
(* estimated hours when that is positive, else 0; a successful completion  *)
(* stores and reports exactly this value.                                  *)
(***************************************************************************)
VelocityPolicy(id) ==
    LET story_points == Total(ClosedIn(id), StoryPointsOf)
        hours == Total(ClosedIn(id), HoursOf)
    IN  IF story_points > 0 THEN story_points
        ELSE IF hours > 0 THEN hours
        ELSE 0

C6_VelocityPolicy ==
    /\ \A id \in DOMAIN sprints : calculate_velocity(tasks, id) = VelocityPolicy(id)
    /\ CompletionAnswered =>
          /\ resp.velocity = Some(VelocityPolicy(resp.id))
          /\ sprints[resp.id].velocity = resp.velocity

\* The hours fallback was taken: the closed tasks have hours and a story-point
\* total of zero, one of them with story_points = 0 rather than NULL.
C6_Witness ==
    /\ CompletionAnswered
    /\ resp.velocity = Some(MaxHours)
    /\ Total(ClosedIn(resp.id), StoryPointsOf) = 0
    /\ \E t \in ClosedIn(resp.id) :
          tasks[t].story_points = Some(0) /\ tasks[t].estimated_hours = Some(MaxHours)

(***************************************************************************)
(* C7.  The remaining work of a sprint is the sum of the work-unit values  *)
(* of its tasks that are neither DONE nor CANCELLED, whatever the as-of    *)
(* date, and 0 for a sprint without tasks; every actual point of a         *)
(* burndown response carries it.                                           *)
(***************************************************************************)
RemainingWork(id) == Total(OpenIn(id), WorkUnitValue)

TotalWork(id) == Total(InSprint(id), WorkUnitValue)

C8_TotalWorkCountsEveryTask ==
    BurndownAnswered => resp.statistics.total_work = TotalWork(resp.id)

(***************************************************************************)
(* C9.  The burndown statistics report completed_work as the total work    *)
(* minus the remaining work, and completion_percentage as completed_work   *)
(* over total work times 100 (one of two equal tasks DONE gives 50).       *)
(***************************************************************************)
C9_CompletedWork ==
    BurndownAnswered =>
        /\ resp.statistics.completed_work = TotalWork(resp.id) - RemainingWork(resp.id)
        /\ TotalWork(resp.id) > 0 =>
              resp.statistics.completion_percentage
                  = Rat((TotalWork(resp.id) - RemainingWork(resp.id)) * 100,
                        TotalWork(resp.id))

(***************************************************************************)
(* C10.  A burndown request the requester may make, on a sprint whose      *)
(* total work is 0, is answered with 200 and completion_percentage 0; no   *)
(* division by zero is raised.                                             *)
(***************************************************************************)
C10_ZeroTotalWork ==
    ( /\ resp.op = "get_sprint_burndown"
      /\ resp.code \notin {403, 404}
      /\ RemainingWork(resp.id) = 0 )
    => /\ resp.code = 200
       /\ resp.statistics.total_work = 0
       /\ resp.statistics.completion_percentage = RatOfInt(0)

\* A burndown was answered for a sprint whose tasks all are closed, one of them
\* with story points, so that the total work of the response is 0.
C10_Witness ==
    /\ BurndownAnswered
    /\ resp.statistics.total_work = 0
    /\ resp.statistics.completion_percentage = RatOfInt(0)
    /\ OpenIn(resp.id) = {}
    /\ \E t \in ClosedIn(resp.id) : tasks[t].story_points = Some(MaxPoints)

(***************************************************************************)
(* C11.  update_planned_velocity on a completed sprint is rejected, with   *)
(* 400 when the requester is a manager or owner of the sprint's            *)
(* organization, whatever value the body carries, and leaves every sprint  *)
(* row as it was.                                                          *)
(***************************************************************************)
C11_CompletedRejectsPlannedVelocity ==
    [][\A user_id \in UserIds, id \in SprintIds,
          data \in NumberBodies \cup NaNBodies, dialect \in Dialects :
        ( /\ id \in DOMAIN sprints
          /\ sprints[id].is_completed
          /\ update_planned_velocity(user_id, id, data, dialect) )
        => /\ resp'.code \in {400, 403}
           /\ SprintWriteGate(user_id, id) = 200 => resp'.code = 400
           /\ sprints' = sprints]_vars

\* A planned-velocity update was refused with 400 on a completed sprint that
\* has no planned velocity yet, so any accepted value would have shown.
C11_Witness ==
    /\ resp.op = "update_planned_velocity"
    /\ resp.code = 400
    /\ resp.id \in DOMAIN sprints
    /\ sprints[resp.id].is_completed
    /\ sprints[resp.id].planned_velocity = None

(***************************************************************************)
(* C12.  Every sprint's planned_velocity is null or a number >= 0, after   *)
(* any sequence of requests.                                               *)
(***************************************************************************)
C12_PlannedVelocityNonNegative ==
    \A id \in DOMAIN sprints :
        \/ sprints[id].planned_velocity = None
        \/ /\ sprints[id].planned_velocity[1] # NaN
           /\ ~FloatLess(sprints[id].planned_velocity[1], RatOfInt(0))

(***************************************************************************)
(* C13.  Every persisted sprint has start_date < end_date, after any       *)
(* sequence of create_sprint and update_sprint requests, accepted or not.  *)
(***************************************************************************)
C13_StartBeforeEnd ==
    \A id \in DOMAIN sprints : sprints[id].start_date < sprints[id].end_date

(***************************************************************************)
(* C14.  update_sprint on a completed sprint changes none of name, goal,   *)
(* start_date and end_date.                                                *)
(***************************************************************************)
C14_FrozenAfterCompletion ==
    [][\A id \in DOMAIN sprints :
        ( /\ sprints[id].is_completed
          /\ resp'.op = "update_sprint"
          /\ resp'.id = id )
        => /\ sprints'[id].name = sprints[id].name
           /\ sprints'[id].goal = sprints[id].goal
           /\ sprints'[id].start_date = sprints[id].start_date
           /\ sprints'[id].end_date = sprints[id].end_date]_vars

C16_OrganizationAverageVelocity ==
    [][\A user_id \in UserIds :
          (get_organization_velocity(user_id) /\ resp'.code = 200) =>
              LET contributing ==
                      {id \in DOMAIN sprints :
                          /\ Some(sprints[id].organization_id) = CurrentUser(user_id).organization_id
                          /\ sprints[id].is_completed
                          /\ sprints[id].velocity # None}
                  VelocityOf(id) == sprints[id].velocity[1]
              IN  /\ contributing = {} => resp'.average_velocity = RatOfInt(0)
                  /\ contributing # {} =>
                        resp'.average_velocity =
                            Rat(Total(contributing, VelocityOf), Cardinality(contributing))]_vars

\* Two completed sprints of organization 1 with velocities 0 and MaxPoints are
\* averaged while a completed sprint of organization 2 is left out.
C16_Witness ==
    /\ resp.op = "get_organization_velocity"
    /\ resp.code = 200
    /\ resp.completed_sprints = 2
    /\ resp.average_velocity = Rat(MaxPoints, 2)
    /\ \E id \in DOMAIN sprints :
          /\ sprints[id].organization_id = 2
          /\ sprints[id].is_completed
          /\ sprints[id].velocity = Some(MaxPoints)
    /\ \E id \in DOMAIN sprints :
          /\ sprints[id].organization_id = 1
          /\ sprints[id].velocity = Some(0)


\* C17: every task whose sprint_id is non-null belongs to the organization of
\* that sprint, after any sequence of create_task, update_task and
\* add_tasks_to_sprint requests (so that no request of a user of organization
\* A changes the analytics of a sprint of organization B).
C17_TaskInSprintOfOwnOrganization ==
    \A t \in DOMAIN tasks :
        (tasks[t].sprint_id # None /\ tasks[t].sprint_id[1] \in DOMAIN sprints) =>
            tasks[t].organization_id = sprints[tasks[t].sprint_id[1]].organization_id


\* A user who may not change sprint id: not a manager or owner, or of another
\* organization than the sprint's.
MayNotChange(user_id, id) ==
    /\ id \in DOMAIN sprints
    /\ \/ UserTable[user_id].role \notin {"MANAGER", "OWNER"}
       \/ UserTable[user_id].organization_id # Some(sprints[id].organization_id)

\* The request was answered 403 and no sprint and no task changed.
RejectedUnchanged ==
    /\ resp'.code = 403
    /\ sprints' = sprints
    /\ tasks' = tasks

\* C18: create, update, delete, add tasks, remove task, complete and
\* planned-velocity update, requested by a user who is not MANAGER or OWNER or
\* whose organization is not the sprint's, are rejected and leave every sprint
\* and every task unchanged.
C18_UnauthorizedRejected ==
    [][/\ \A user_id \in {1, 2}, data \in AuthCreateBodies :
            (/\ create_sprint(user_id, data, "postgresql")
             /\ UserTable[user_id].role \notin {"MANAGER", "OWNER"}) => RejectedUnchanged
       /\ \A user_id \in UserIds, id \in SprintIds :
            MayNotChange(user_id, id) =>
              /\ \A data \in AuthUpdateBodies :
                    update_sprint(user_id, id, data, "postgresql") => RejectedUnchanged
              /\ delete_sprint(user_id, id) => RejectedUnchanged
              /\ \A t \in TaskIds :
                    add_tasks_to_sprint(user_id, id, [task_ids |-> <<t>>]) => RejectedUnchanged
              /\ \A t \in TaskIds :
                    remove_task_from_sprint(user_id, id, t) => RejectedUnchanged
              /\ complete_sprint(user_id, id) => RejectedUnchanged
              /\ \A data \in AuthPlannedVelocityBodies :
                    update_planned_velocity(user_id, id, data, "postgresql")
                        => RejectedUnchanged]_vars

\* A request to take a task out of an open sprint that holds it was answered
\* 403.
C18_Witness ==
    /\ resp.op = "remove_task_from_sprint"
    /\ resp.code = 403
    /\ resp.id \in DOMAIN sprints
    /\ ~sprints[resp.id].is_completed
    /\ \E t \in DOMAIN tasks : tasks[t].sprint_id = Some(resp.id)


\* The sum of W over S, for values of either sign.
SignedTotal(S, W(_)) ==
    LET Pos(t) == IF W(t) > 0 THEN W(t) ELSE 0
        Neg(t) == IF W(t) < 0 THEN 0 - W(t) ELSE 0
    IN  Total(S, Pos) - Total(S, Neg)

\* The ideal points of the last burndown response, in the order of the series.
IdealSeries ==
    LET IsIdeal(point) == point.is_ideal
    IN  SelectSeq(resp.points, IsIdeal)

\* (end_date - start_date).days + 1 of a sprint.
NumberOfDays(id) == ((sprints[id].end_date - sprints[id].start_date) \div TicksPerDay) + 1

\* C19: the ideal burndown series starts at total work, the work-unit values
\* of all tasks of the sprint, on start_date, and each following daily point is
\* lower than the one before by exactly total_work / number_of_days, where
\* number_of_days = (end_date - start_date).days + 1 (a 5-day sprint with
\* total work 10 has 10, 8, 6, 4, 2).
C19_IdealSeries ==
    BurndownAnswered =>
        LET total_work == SignedTotal(InSprint(resp.id), WorkUnitValue)
            ideal == IdealSeries
        IN  /\ Len(ideal) = NumberOfDays(resp.id)
            /\ ideal[1].date = isoformat(sprints[resp.id].start_date)
            /\ ideal[1].remaining_work = RatOfInt(total_work)
            /\ \A i \in 2..Len(ideal) :
                  ideal[i].remaining_work =
                      RatSub(ideal[i - 1].remaining_work,
                             Rat(total_work, NumberOfDays(resp.id)))

ActualSeries ==
    LET IsActual(point) == ~point.is_ideal
    IN  SelectSeq(resp.points, IsActual)

\* The calendar day a time or a date string falls on.
CalendarDay(t) == t \div TicksPerDay

CalendarDayOfString(str) == str[1] * 10 + str[2]

\* C21 as stated: the actual series has exactly one point per calendar day from
\* start_date through end_date inclusive, and every actual point of a response
\* carries the remaining work computed from the tasks' current statuses.
C21_OnePointPerCalendarDay ==
    BurndownAnswered =>
        LET actual == ActualSeries
            first_day == CalendarDay(sprints[resp.id].start_date)
            last_day == CalendarDay(sprints[resp.id].end_date)
        IN  /\ Len(actual) = last_day - first_day + 1
            /\ \A day \in first_day..last_day :
                  Cardinality({i \in 1..Len(actual) :
                                  CalendarDayOfString(actual[i].date) = day}) = 1
            /\ \A i \in 1..Len(actual) :
                  actual[i].remaining_work = RatOfInt(RemainingWork(resp.id))

\* C21 amended: the actual series has one point for each time start_date + k
\* days, k = 0, 1, 2, ..., that is not after end_date, in this order; for
\* end_date >= start_date these are (end_date - start_date).days + 1 points,
\* and the calendar day of end_date has none when end_date falls earlier in its
\* day than start_date does in its own.  Every actual point of a response
\* carries the remaining work computed from the tasks' current statuses.
C21_OnePointPerElapsedDay ==
    BurndownAnswered =>
        LET actual == ActualSeries
            start_date == sprints[resp.id].start_date
            end_date == sprints[resp.id].end_date
            steps == {k \in 0..(MaxDays * TicksPerDay) : start_date + k * TicksPerDay <= end_date}
        IN  /\ Len(actual) = Cardinality(steps)
            /\ end_date >= start_date => Len(actual) = NumberOfDays(resp.id)
            /\ \A i \in 1..Len(actual) :
                  /\ actual[i].date = isoformat(start_date + (i - 1) * TicksPerDay)
                  /\ actual[i].remaining_work = RatOfInt(RemainingWork(resp.id))

\* A burndown of a sprint with open work that starts later in the day than it
\* ends: the series skips the calendar day of end_date.
C21_Witness ==
    /\ BurndownAnswered
    /\ sprints[resp.id].start_date % TicksPerDay > sprints[resp.id].end_date % TicksPerDay
    /\ Len(ActualSeries) >= 2
    /\ Len(ActualSeries) = CalendarDay(sprints[resp.id].end_date)
                             - CalendarDay(sprints[resp.id].start_date)
    /\ RemainingWork(resp.id) > 0


\* C22: the velocity_trend list of get_organization_velocity is ordered by
\* end_date descending (each record's end_date is >= the next record's) and
\* holds one record for each completed sprint of the organization with a
\* non-null velocity.
C22_VelocityTrend ==
    [][\A user_id \in UserIds :
          (get_organization_velocity(user_id) /\ resp'.code = 200) =>
              LET trend == resp'.velocity_trend
                  recorded ==
                      {id \in DOMAIN sprints :
                          /\ Some(sprints[id].organization_id) = UserTable[user_id].organization_id
                          /\ sprints[id].is_completed
                          /\ sprints[id].velocity # None}
              IN  /\ \A i \in 1..(Len(trend) - 1) :
                        fromisoformat(trend[i].end_date) >= fromisoformat(trend[i + 1].end_date)
                  /\ Len(trend) = Cardinality(recorded)
                  /\ {trend[i].sprint_id : i \in 1..Len(trend)} = recorded
                  /\ \A i \in 1..Len(trend) :
                        /\ trend[i].end_date = isoformat(sprints[trend[i].sprint_id].end_date)
                        /\ trend[i].velocity = sprints[trend[i].sprint_id].velocity[1]]_vars

\* A trend of two records whose end dates differ, the later first, answered
\* while a sprint of the same organization is still open.
C22_Witness ==
    /\ resp.op = "get_organization_velocity"
    /\ resp.code = 200
    /\ Len(resp.velocity_trend) = 2
    /\ fromisoformat(resp.velocity_trend[1].end_date)
          > fromisoformat(resp.velocity_trend[2].end_date)
    /\ \E id \in DOMAIN sprints :
          /\ ~sprints[id].is_completed
          /\ sprints[id].organization_id
                = sprints[resp.velocity_trend[1].sprint_id].organization_id


\* C23: get_sprint_velocity sums the story points and the estimated hours of
\* the sprint's DONE and CANCELLED tasks independently of each other and
\* reports each daily velocity as that sum over days_elapsed =
\* (now - start_date).days + 1; when days_elapsed <= 0 both daily velocities
\* are 0 and the request is answered without error.
C23_DailyVelocity ==
    [][\A user_id \in UserIds, id \in DOMAIN sprints, now \in VelocityNows :
          ( /\ get_sprint_velocity(user_id, id, now)
            /\ UserTable[user_id].organization_id = Some(sprints[id].organization_id) ) =>
              LET story_points == Total(ClosedIn(id), StoryPointsOf)
                  hours == Total(ClosedIn(id), HoursOf)
                  days_elapsed == ((now - sprints[id].start_date) \div TicksPerDay) + 1
              IN  /\ resp'.code = 200
                  /\ resp'.completed_work.story_points = story_points
                  /\ resp'.completed_work.hours = hours
                  /\ resp'.days_elapsed = days_elapsed
                  /\ days_elapsed > 0 =>
                        /\ resp'.daily_velocity.story_points = Rat(story_points, days_elapsed)
                        /\ resp'.daily_velocity.hours = Rat(hours, days_elapsed)
                  /\ days_elapsed <= 0 =>
                        /\ resp'.daily_velocity.story_points = RatOfInt(0)
                        /\ resp'.daily_velocity.hours = RatOfInt(0)]_vars

\* The velocity of a sprint with closed work in both units was asked for
\* before the sprint started.
C23_Witness ==
    /\ resp.op = "get_sprint_velocity"
    /\ resp.code = 200
    /\ resp.days_elapsed <= 0
    /\ resp.completed_work.story_points > 0
    /\ resp.completed_work.hours > 0
    /\ \E t \in DOMAIN tasks : tasks[t].status = "TODO" /\ tasks[t].story_points # None


\* C24: get_current_sprint returns a sprint only if it belongs to the
\* requester's organization and start_date <= now <= end_date; when no such
\* sprint exists the lookup reports the absence of a current sprint as a valid
\* result (a success answer), not as an error.
C24_CurrentSprint ==
    [][\A user_id \in UserIds, now \in CurrentNows :
          get_current_sprint(user_id, now) =>
              LET current ==
                      {id \in DOMAIN sprints :
                          /\ Some(sprints[id].organization_id) = UserTable[user_id].organization_id
                          /\ sprints[id].start_date <= now
                          /\ now <= sprints[id].end_date}
              IN  /\ resp'.id # 0 => resp'.id \in current /\ resp'.sprint = sprints[resp'.id]
                  /\ current # {} => resp'.id \in current
                  /\ current = {} => resp'.code < 400]_vars


\* No sprint and no task changes in the step.
TablesUnchanged == sprints' = sprints /\ tasks' = tasks

\* C25: get_sprint_burndown, get_sprint_velocity, get_organization_velocity
\* and get_current_sprint leave every sprint field (velocity and is_completed
\* included) and every task unchanged, so a burndown request that follows an
\* answered burndown request for the same sprint, with nothing in between,
\* returns the same points.
C25_QueriesChangeNothing ==
    [][\A user_id \in UserIds, now \in QueryNows :
          /\ \A id \in SprintIds :
                /\ get_sprint_burndown(user_id, id, now) =>
                      /\ TablesUnchanged
                      /\ ( /\ BurndownAnswered
                            /\ resp.id = id
                            /\ resp'.code = 200 ) => resp'.points = resp.points
                /\ get_sprint_velocity(user_id, id, now) => TablesUnchanged
          /\ get_organization_velocity(user_id) => TablesUnchanged
          /\ get_current_sprint(user_id, now) => TablesUnchanged]_vars

\* A velocity query was answered for a completed sprint that holds an open
\* task: the stored velocity and the completed work of the answer differ in
\* origin, and the stored one is still the one the completion wrote.
C25_Witness ==
    /\ resp.op = "get_sprint_velocity"
    /\ resp.code = 200
    /\ sprints[resp.id].is_completed
    /\ sprints[resp.id].velocity = Some(0)
    /\ resp.completed_work.story_points > 0


\* C26: in every get_organization_velocity response reachable through the
\* requests, completed_sprints equals the number of records of velocity_trend,
\* because every completed sprint has a non-null velocity.
C26_CountEqualsTrendLength ==
    /\ \A id \in DOMAIN sprints : sprints[id].is_completed => sprints[id].velocity # None
    /\ (resp.op = "get_organization_velocity" /\ resp.code = 200) =>
          resp.completed_sprints = Len(resp.velocity_trend)

\* The organization velocity was answered with one completed sprint, after the
\* sprint was completed by a request.
C26_Witness ==
    /\ resp.op = "get_organization_velocity"
    /\ resp.code = 200
    /\ resp.completed_sprints = 1
    /\ Len(resp.velocity_trend) = 1
    /\ completions[1] = 1


\* C28: after any sequence of task and sprint requests every task's sprint_id
\* is null or the id of an existing sprint.
C28_SprintIdNamesAnExistingSprint ==
    \A t \in DOMAIN tasks :
        tasks[t].sprint_id = None \/ tasks[t].sprint_id[1] \in DOMAIN sprints

\* C28, first half: delete_sprint is rejected, sprints and tasks unchanged,
\* while any task references the sprint.
C28_DeleteRejectedWhileReferenced ==
    [][\A user_id \in UserIds, id \in SprintIds :
          (delete_sprint(user_id, id) /\ id \in DOMAIN sprints
             /\ \E t \in DOMAIN tasks : tasks[t].sprint_id = Some(id))
          => (resp'.code # 200 /\ sprints' = sprints /\ tasks' = tasks)]_vars


\* The tasks reached from t by following parent_task_id at most n times.
RECURSIVE AncestorsWithin(_, _)
AncestorsWithin(t, n) ==
    IF n = 0 \/ t \notin DOMAIN tasks \/ tasks[t].parent_task_id = None THEN {}
    ELSE {tasks[t].parent_task_id[1]}
         \cup AncestorsWithin(tasks[t].parent_task_id[1], n - 1)

\* C29: after any sequence of create_task, update_task and split_task requests
\* the parent_task_id relation is acyclic: following parent_task_id from any
\* task never returns to that task.
C29_ParentRelationAcyclic ==
    \A t \in DOMAIN tasks : t \notin AncestorsWithin(t, Cardinality(DOMAIN tasks))

\* C29, for the cycles the check of update_task covers: no task is its own
\* parent and no two tasks are each other's parent.
C29_NoCycleOfLengthOneOrTwo ==
    \A t \in DOMAIN tasks : t \notin AncestorsWithin(t, 2)


\* C30: an update_sprint request that is rejected for a date that does not
\* parse, or for a resulting end_date <= start_date, leaves the stored sprint
\* unchanged, the name, the goal and a start_date that did parse included.
C30_RejectedUpdateChangesNothing ==
    [][(resp'.op = "update_sprint" /\ resp'.code = 400)
          => (sprints' = sprints /\ tasks' = tasks)]_vars

\* A request was rejected with 400 while the sprint still carries its first
\* name and start_date and no goal: every body of SpecReject that has a date
\* also has a goal.
C30_Witness ==
    /\ resp.op = "update_sprint"
    /\ resp.code = 400
    /\ sprints[1].name = "sprint"
    /\ sprints[1].goal = None
    /\ sprints[1].start_date = 1
    /\ sprints[1].end_date = MaxTime


\* The clauses of C27 for a burndown response over n = number_of_days days.
MergedSeriesHolds(n) ==
    LET points == resp.points
        ideal == IdealSeries
        total_work == resp.statistics.total_work
        OnDate(date, is_ideal) ==
            {j \in 1..Len(points) :
                points[j].date = date /\ points[j].is_ideal = is_ideal}
    IN  /\ Len(points) = 2 * n
        /\ \A i \in 1..Len(points) :
              /\ Cardinality(OnDate(points[i].date, FALSE)) = 1
              /\ Cardinality(OnDate(points[i].date, TRUE)) = 1
        /\ \A i \in 1..Len(points), j \in 1..Len(points) :
              i < j => ~StrLess(points[j].date, points[i].date)
        /\ Len(points) >= 2
        /\ points[1].date = points[2].date
        /\ points[1].remaining_work = points[2].remaining_work
        /\ Len(ideal) >= 1
        /\ n # 0
        /\ ideal[Len(ideal)].remaining_work = Rat(total_work, n)
        /\ (\E i \in 1..Len(ideal) : ideal[i].remaining_work = RatOfInt(0))
              => total_work = 0

\* C27: for every sprint the merged burndown series has exactly
\* 2 * number_of_days points, number_of_days = (end_date - start_date).days + 1:
\* for each date one actual and one ideal point, sorted by date ascending, the
\* two points of the first date with the same remaining_work, and the last
\* ideal point equal to total_work / number_of_days, so that the ideal line
\* reaches 0 only when total_work is 0.
C27_MergedSeries ==
    BurndownAnswered => MergedSeriesHolds(NumberOfDays(resp.id))

\* C27 for the sprints whose stored start_date is not after their stored
\* end_date, with total_work read as the total_work of the response.
C27_MergedSeriesOfOrderedRange ==
    (BurndownAnswered /\ sprints[resp.id].start_date <= sprints[resp.id].end_date)
        => MergedSeriesHolds(NumberOfDays(resp.id))

====
